---- MODULE Spec2Model ----
(***************************************************************************)
(* A model of the Theta EdgeCloud client (internal/theta_client/client.go): *)
(* its token-bucket rate limiter, the retrying transport sendRequest, the   *)
(* blocking completion calls and the streaming completion goroutine.        *)
(***************************************************************************)
EXTENDS Integers, Sequences, FiniteSets, TLC

(***************************************************************************)
(* Bounds of the model and constants of the program.                        *)
(***************************************************************************)
\* callers of acquire() in the limiter specification
NumWorkers == 1
\* SetRateLimit calls made on one client
MaxSets == 1
\* largest requests-per-second value handed to SetRateLimit
MaxRPS == 1
\* clock instants per ticker period (one second)
TicksPerSecond == 2
\* NewThetaClient: rateLimitRPS: 8
DefaultRPS == 8

\* logical calls made through one client in the call specification
MaxCalls == 2
\* largest attempts value handed to SetRetry
MaxAttempts == 3
\* the backoff (ms) handed to SetRetry
TestBackoff == 50
\* GenerateWithLLMStream calls made in the streaming specification
MaxStreams == 1
\* tokens counted in llmStreamTokens
MaxStreamTokens == 2
\* GenerateWithLLMStream: out := make(chan string, 32)
OutCap == 32
\* GenerateWithLLMStream: errCh := make(chan error, 1)
ErrCap == 1
\* NewThetaClient: retryAttempts: 3
DefaultRetryAttempts == 3
\* NewThetaClient: retryBackoff: 200 * time.Millisecond
DefaultRetryBackoff == 200

\* advisors in the game state
NumAdvisors == 3
\* largest PRES_SIM_MAX_TURNS
MaxTurnsEnv == 2
\* StartNewTurn calls after a start of the game
MaxRounds == 3
\* requests that may run ProcessPlayerChoice at the same time
NumRequests == 2
\* seconds a quick provider takes to answer
FastLatency == 1
\* seconds a slow provider takes to answer
SlowLatency == 40
\* StartNewTurn: g.selectRandomAdvisors(3)
SelectCount == 3
\* StartNewTurn: context.WithTimeout(ctx, 35*time.Second), per worker
WorkerTimeout == 35
\* getAdvisorAdviceStream: context.WithTimeout(ctx, 35*time.Second)
PrimaryTimeout == 35
\* llama_client.New: http.Client{Timeout: 35 * time.Second}
LlamaHTTPTimeout == 35
\* advisorOpinionViaGemini: context.WithTimeout(ctx, 15*time.Second)
SecondaryTimeout == 15
\* gemini_client.New: http.Client{Timeout: 20 * time.Second}
GeminiHTTPTimeout == 20

\* lines in a response body given to the decoder
MaxBodyLines == 3
\* fragments in a text given to the extractor
MaxFragments == 3
\* atoms in a string given to sanitizeOpinion
MaxDirtyLen == 4
\* sanitizeOpinion: if len(sents) > 3 { sents = sents[:3] }
MaxSentences == 3

\* ticks an asset stays in the cache: WithCache(true, CacheDuration)
CacheDuration == 2
\* the last tick of the clock
MaxClock == 4

\* updateWorldMetrics: clamp(..., -100, 100)
MetricFloor == -100
MetricCeil == 100
\* loadGameConfig: MetricMin: 40, MetricMax: 70
DefaultMetricMin == 40
DefaultMetricMax == 70
\* http.StatusOK, http.StatusBadRequest, http.StatusBadGateway
StatusOK == 200
StatusBadRequest == 400
StatusBadGateway == 502

Min(a, b) == IF a < b THEN a ELSE b
Max(a, b) == IF a > b THEN a ELSE b

SetMin(S) == CHOOSE x \in S : \A y \in S : x <= y

SetMax(S) == CHOOSE x \in S : \A y \in S : x >= y

VARIABLES
    \* ---- rate limiter (ThetaClient.rateLimitRPS, ThetaClient.tokens) ----
    rateLimitRPS,   \* c.rateLimitRPS
    tokens,         \* c.tokens: the index in chans of the current channel
    chans,          \* every permit channel made so far: [cap, len]
    tickers,        \* the refill goroutines: [init, phase, fired]
    phase,          \* the clock instant within the current second
    setPc,          \* SetRateLimit: "idle", or "reinit" between its two writes
    setCount,       \* SetRateLimit calls made
    acq,            \* callers of acquire(): [pc, ch]
    \* ---- observers of the limiter ----
    sinceRefill,    \* clock instants since permits were last added (saturates)
    lastGap,        \* sinceRefill when a tick last added permits: 0 for a new pool
    winAcq,         \* acquire() calls completed on the current pool since then
    \* ---- retry policy and metrics (ThetaClient, clientMetrics) ----
    retryAttempts,  \* c.retryAttempts
    retryBackoff,   \* c.retryBackoff, in ms
    llmRequests,    \* c.metrics.llmRequests
    llmFailures,    \* c.metrics.llmFailures
    \* ---- one blocking call: sendRequest, GenerateWithLLM, AnalyzeVision ----
    call,           \* the call in progress or last returned: [op, model]
    sendPc,         \* "idle", "acquire", "http", "sleep", "direct", "vision"
    attempt,        \* the loop variable of sendRequest
    cancelled,      \* the caller's ctx is done
    result,         \* what the call returned: "none" while it runs
    \* ---- observers of the call ----
    responses,      \* the outcome of every HTTP attempt of the call, in order
    sleeps,         \* every time.Sleep of the call: [after, ms]
    inflight,       \* HTTP requests issued and not yet answered
    stages,         \* the stages the call went through, in order
    okCalls,        \* sendRequest / GenerateWithLLM calls that returned nil
    errCalls,       \* sendRequest / GenerateWithLLM calls that returned an error
    callsMade,      \* calls started
    \* ---- GenerateWithLLMStream: the goroutine, its channels, its consumer ----
    strPc,          \* "idle", "acquire", "http", "read", "send", "closed"
    out,            \* chunks buffered in the channel out
    errCh,          \* errors buffered in the channel errCh
    pending,        \* sends left for the line read: [n, counted]
    strCancelled,   \* the caller's ctx is done
    consPc,         \* the consumer: "receiving" or "stopped"
    llmStreamReqs,  \* c.metrics.llmStreamReqs
    llmStreamTokens,\* c.metrics.llmStreamTokens
    streamsMade,    \* GenerateWithLLMStream calls made
    \* ---- the game: GameState, StartNewTurn and its workers, evaluateChoice ----
    advisors,       \* g.sim.state.Advisors: the advisor ids
    geminiKey,      \* GOOGLE_AI_API_KEY is set
    turn,           \* g.sim.state.Turn
    maxTurns,       \* g.sim.state.MaxTurns
    stats,          \* g.sim.state.Stats
    turnPc,         \* "idle", "workers", "built"
    selected,       \* selectedAdvisors: the advisors selected for the turn
    wk,             \* the worker goroutines of StartNewTurn, one per selected advisor
    advisorResponses, \* the slice the workers append to
    currentTurn,    \* g.sim.state.CurrentTurn: its Advisors, or <<>> for nil
    ev,             \* what evaluateChoice returned last, the texts it had and the metrics before
    \* ---- observers of the game ----
    statsAtStart,   \* stats when StartNewTurn started its workers
    \* ---- the pure decoders: their argument and what they returned ----
    body,           \* data, the response body given to parseSSEorJSONCompletion
    completion,     \* what parseSSEorJSONCompletion returned
    raw,            \* raw, the model text given to extractAdvisorOpinion
    opinion,        \* what extractAdvisorOpinion returned
    dirty,          \* s, the string given to sanitizeOpinion
    sanitized,      \* what sanitizeOpinion returned
    \* ---- the game's world and the requests of its HTTP server ----
    metrics,        \* g.sim.state.Metrics
    history,        \* g.sim.state.History: the Turn of each TurnResult
    rounds,         \* StartNewTurn calls since the game was started
    rq,             \* the requests that run ProcessPlayerChoice
    resp,           \* the last response written by a handler
    \* ---- the image client and the asset cache ----
    image,          \* the last call of the image client's Generate
    eventImage,     \* CurrentTurn.Event.ImageURL
    cache,          \* ag.cache: key -> asset
    stored,         \* per key, the asset last stored since the last ClearCache
    now,            \* time.Now(), in ticks
    cres            \* what the last call on the cache returned

limVars == <<rateLimitRPS, tokens, chans, tickers, phase, setPc, setCount, acq,
             sinceRefill, lastGap, winAcq>>

cliVars == <<retryAttempts, retryBackoff, llmRequests, llmFailures, call, sendPc,
             attempt, cancelled, result, responses, sleeps, inflight, stages,
             okCalls, errCalls, callsMade>>

strVars == <<strPc, out, errCh, pending, strCancelled, consPc, llmStreamReqs,
             llmStreamTokens, streamsMade>>

gameVars == <<advisors, geminiKey, turn, maxTurns, stats, turnPc, selected, wk,
              advisorResponses, currentTurn, ev, statsAtStart>>

parseVars == <<body, completion, raw, opinion, dirty, sanitized>>

worldVars == <<metrics, history, rounds, rq, resp>>

assetVars == <<image, eventImage, cache, stored, now, cres>>

vars == <<limVars, cliVars, strVars, gameVars, parseVars, worldVars, assetVars>>

Workers == 1..NumWorkers
MaxTickers == MaxSets + 1

(***************************************************************************)
(* Rate limiter                                                             *)
(***************************************************************************)

\* make(chan struct{}, n) filled with n permits
FullChan(n) == [cap |-> n, len |-> n]

\* NewThetaClient + initRateLimiter: a full channel of rateLimitRPS permits and
\* one ticker goroutine, whose first tick is one second after construction.
InitLimiter ==
    /\ rateLimitRPS = DefaultRPS
    /\ chans = <<FullChan(DefaultRPS)>>
    /\ tokens = 1
    /\ tickers = <<[init |-> TRUE, phase |-> 0, fired |-> TRUE]>>
    /\ phase = 0
    /\ setPc = "idle"
    /\ setCount = 0
    /\ acq = [w \in Workers |-> [pc |-> "idle", ch |-> 0]]
    /\ sinceRefill = 0
    /\ lastGap = TicksPerSecond
    /\ winAcq = 0

\* The loop bound of a ticker goroutine: the goroutine of initRateLimiter
\* compares with c.rateLimitRPS, the one of reinitRateLimiter with cap(c.tokens).
RefillBound(t) ==
    IF tickers[t].init THEN rateLimitRPS ELSE chans[tokens].cap

\* A refill that adds the bound to the permits held instead of topping up.
RefilledLenAdds(t) ==
    chans[tokens].len + RefillBound(t)

\* for i := len(c.tokens); i < bound; i++ { select { case c.tokens <- x: default: } }
\* bound - len non-blocking sends: a send into a full channel is dropped.
RefilledLen(t) ==
    Min(chans[tokens].cap, Max(chans[tokens].len, RefillBound(t)))

\* One tick of ticker goroutine t (for range ticker.C { refill }).
Refill(t) ==
    /\ t \in 1..Len(tickers)
    /\ tickers[t].phase = phase
    /\ ~tickers[t].fired
    /\ tickers' = [tickers EXCEPT ![t].fired = TRUE]
    /\ chans' = [chans EXCEPT ![tokens].len = RefilledLen(t)]
    /\ IF RefilledLen(t) > chans[tokens].len
         THEN /\ lastGap' = sinceRefill
              /\ sinceRefill' = 0
              /\ winAcq' = 0
         ELSE UNCHANGED <<lastGap, sinceRefill, winAcq>>
    /\ UNCHANGED <<rateLimitRPS, tokens, phase, setPc, setCount, acq>>
    /\ UNCHANGED <<cliVars, strVars, gameVars, parseVars, worldVars, assetVars>>

\* The clock moves to the next instant once every ticker due now has ticked.
AdvanceTime ==
    /\ \A t \in 1..Len(tickers) : tickers[t].phase = phase => tickers[t].fired
    /\ phase' = (phase + 1) % TicksPerSecond
    /\ tickers' = [t \in 1..Len(tickers) |-> [tickers[t] EXCEPT !.fired = FALSE]]
    /\ sinceRefill' = Min(TicksPerSecond, sinceRefill + 1)
    /\ UNCHANGED <<rateLimitRPS, tokens, chans, setPc, setCount, acq, lastGap, winAcq>>
    /\ UNCHANGED <<cliVars, strVars, gameVars, parseVars, worldVars, assetVars>>

\* SetRateLimit(rps), first write: if rps<=0 { return }; c.rateLimitRPS = rps
SetRateLimit(rps) ==
    /\ setPc = "idle"
    /\ setCount < MaxSets
    /\ rps > 0
    /\ rateLimitRPS' = rps
    /\ setPc' = "reinit"
    /\ setCount' = setCount + 1
    /\ UNCHANGED <<tokens, chans, tickers, phase, acq, sinceRefill, lastGap, winAcq>>
    /\ UNCHANGED <<cliVars, strVars, gameVars, parseVars, worldVars, assetVars>>

\* reinitRateLimiter: a new full channel replaces c.tokens and one more ticker
\* goroutine is started; the goroutines started before keep running.
reinitRateLimiter ==
    /\ setPc = "reinit"
    /\ chans' = Append(chans, FullChan(rateLimitRPS))
    /\ tokens' = Len(chans) + 1
    /\ tickers' = Append(tickers, [init |-> FALSE, phase |-> phase, fired |-> TRUE])
    /\ setPc' = "idle"
    /\ sinceRefill' = 0
    /\ lastGap' = 0
    /\ winAcq' = 0
    /\ UNCHANGED <<rateLimitRPS, phase, setCount, acq>>
    /\ UNCHANGED <<cliVars, strVars, gameVars, parseVars, worldVars, assetVars>>

\* acquire(): <-c.tokens. The channel expression is evaluated first ...
AcquireRead(w) ==
    /\ acq[w].pc = "idle"
    /\ acq' = [acq EXCEPT ![w].pc = "wait", ![w].ch = tokens]
    /\ UNCHANGED <<rateLimitRPS, tokens, chans, tickers, phase, setPc, setCount,
                   sinceRefill, lastGap, winAcq>>
    /\ UNCHANGED <<cliVars, strVars, gameVars, parseVars, worldVars, assetVars>>

\* ... and the receive then blocks on that channel until it holds a permit.
AcquireRecv(w) ==
    /\ acq[w].pc = "wait"
    /\ chans[acq[w].ch].len > 0
    /\ chans' = [chans EXCEPT ![acq[w].ch].len = @ - 1]
    /\ acq' = [acq EXCEPT ![w].pc = "idle", ![w].ch = 0]
    /\ winAcq' = IF acq[w].ch = tokens THEN winAcq + 1 ELSE winAcq
    /\ UNCHANGED <<rateLimitRPS, tokens, tickers, phase, setPc, setCount,
                   sinceRefill, lastGap>>
    /\ UNCHANGED <<cliVars, strVars, gameVars, parseVars, worldVars, assetVars>>

(***************************************************************************)
(* Blocking calls: sendRequest, GenerateWithLLM, AnalyzeVision              *)
(***************************************************************************)

Models == {"deepseek_r1", "llama_3_1_70b", "generic"}

\* The HTTP statuses the server answers with.
Statuses == {200, 400, 401, 403, 404, 429, 500, 502, 503}

NetErr == [kind |-> "neterr", status |-> 0, body |-> "none"]
ReadErr == [kind |-> "readerr", status |-> 0, body |-> "none"]
Http(s, b) == [kind |-> "http", status |-> s, body |-> b]

\* What httpClient.Do and io.ReadAll can give for one attempt: a transport
\* error, an error reading the body, or a status with a body that is a JSON
\* object, text that is no JSON, or empty.
Outcomes ==
    {NetErr, ReadErr}
        \cup {Http(s, "json") : s \in Statuses}
        \cup {Http(200, "garbage"), Http(200, "empty")}

\* Once ctx is done, httpClient.Do returns the context's error.
OutcomesNow == IF cancelled THEN {NetErr} ELSE Outcomes

\* if resp.StatusCode >=500 || resp.StatusCode==429
RetryStatus(r) == r.kind = "http" /\ (r.status >= 500 \/ r.status = 429)

\* json.Unmarshal(data, respBody) succeeds
Decodes(r) == r.body = "json"

\* parseSSEorJSONCompletion(data) returns a non-empty text: the text of the
\* choices, or else the trimmed raw body
HasContent(r) == r.body # "empty"

\* time.Duration(attempt+1)*c.retryBackoff with the loop variable itself
BackoffFlat(a) == a * retryBackoff

\* time.Duration(attempt+1)*c.retryBackoff
Backoff(a) == (a + 1) * retryBackoff

InitClient ==
    /\ retryAttempts = DefaultRetryAttempts
    /\ retryBackoff = DefaultRetryBackoff
    /\ llmRequests = 0
    /\ llmFailures = 0
    /\ call = [op |-> "none", model |-> "none"]
    /\ sendPc = "idle"
    /\ attempt = 0
    /\ cancelled = FALSE
    /\ result = "none"
    /\ responses = <<>>
    /\ sleeps = <<>>
    /\ inflight = 0
    /\ stages = <<>>
    /\ okCalls = 0
    /\ errCalls = 0
    /\ callsMade = 0

\* SetRetry(attempts, backoff): each is taken only when positive
SetRetry(attempts, backoff) ==
    /\ sendPc = "idle"
    /\ callsMade = 0
    /\ retryAttempts' = IF attempts > 0 THEN attempts ELSE retryAttempts
    /\ retryBackoff' = IF backoff > 0 THEN backoff ELSE retryBackoff
    /\ UNCHANGED <<llmRequests, llmFailures, call, sendPc, attempt, cancelled, result,
                   responses, sleeps, inflight, stages, okCalls, errCalls, callsMade>>
    /\ UNCHANGED <<limVars, strVars, gameVars, parseVars, worldVars, assetVars>>

\* The caller's state at the start of a call.
Begin(op, model, pc, firstStages, flying) ==
    /\ sendPc = "idle"
    /\ callsMade < MaxCalls
    /\ call' = [op |-> op, model |-> model]
    /\ sendPc' = pc
    /\ attempt' = 0
    /\ cancelled' = FALSE
    /\ result' = "none"
    /\ responses' = <<>>
    /\ sleeps' = <<>>
    /\ inflight' = flying
    /\ stages' = firstStages
    /\ callsMade' = callsMade + 1
    /\ UNCHANGED <<retryAttempts, retryBackoff, llmRequests, llmFailures, okCalls, errCalls>>
    /\ UNCHANGED <<limVars, strVars, gameVars, parseVars, worldVars, assetVars>>

\* GenerateWithLLM(ctx, req): deepseek_r1 and llama_3_1_70b send the request
\* themselves with c.httpClient.Do; every other model goes to sendRequest, whose
\* loop is entered only when retryAttempts > 0 (SetRetry keeps it positive).
GenerateWithLLM(model) ==
    IF model \in {"deepseek_r1", "llama_3_1_70b"}
      THEN Begin("GenerateWithLLM", model, "direct", <<"http_plain">>, 1)
      ELSE Begin("GenerateWithLLM", model, "acquire", <<>>, 0)

\* AnalyzeVision(ctx, req): the multipart request is sent with c.httpClient.Do
AnalyzeVision ==
    Begin("AnalyzeVision", "none", "vision", <<"http_plain">>, 1)

\* The caller's context is cancelled or its deadline passes.
Cancel ==
    /\ sendPc # "idle"
    /\ ~cancelled
    /\ cancelled' = TRUE
    /\ UNCHANGED <<retryAttempts, retryBackoff, llmRequests, llmFailures, call, sendPc,
                   attempt, result, responses, sleeps, inflight, stages, okCalls,
                   errCalls, callsMade>>
    /\ UNCHANGED <<limVars, strVars, gameVars, parseVars, worldVars, assetVars>>

\* The call returns res; ok tells whether the returned error is nil.
Return(res, ok) ==
    /\ sendPc' = "idle"
    /\ result' = res
    /\ okCalls' = IF ok THEN okCalls + 1 ELSE okCalls
    /\ errCalls' = IF ok THEN errCalls ELSE errCalls + 1

\* sendRequest, top of the loop: c.acquire(), then the request is built and
\* handed to c.httpClient.Do.
sendAcquire ==
    /\ sendPc = "acquire"
    /\ chans[tokens].len > 0
    /\ chans' = [chans EXCEPT ![tokens].len = @ - 1]
    /\ winAcq' = winAcq + 1
    /\ sendPc' = "http"
    /\ inflight' = inflight + 1
    /\ stages' = stages \o <<"permit", "http_retry">>
    /\ UNCHANGED <<retryAttempts, retryBackoff, llmRequests, llmFailures, call, attempt,
                   cancelled, result, responses, sleeps, okCalls, errCalls, callsMade>>
    /\ UNCHANGED <<rateLimitRPS, tokens, tickers, phase, setPc, setCount, acq,
                   sinceRefill, lastGap>>
    /\ UNCHANGED <<strVars, gameVars, parseVars, worldVars, assetVars>>

\* The end of one pass of the loop with err != nil and no return: lastErr = err,
\* attempt++, and the loop ends with "exhausted retries" when attempt reaches
\* attempts.
NextPass ==
    IF attempt + 1 < retryAttempts
      THEN /\ sendPc' = "acquire"
           /\ attempt' = attempt + 1
           /\ UNCHANGED <<result, okCalls, errCalls, llmRequests, llmFailures>>
      ELSE /\ Return("exhausted retries", FALSE)
           /\ UNCHANGED <<attempt, llmRequests, llmFailures>>

\* sendRequest, the outcome r of c.httpClient.Do and of reading the body.
sendResponse(r) ==
    /\ sendPc = "http"
    /\ r \in OutcomesNow
    /\ responses' = Append(responses, r)
    /\ inflight' = inflight - 1
    /\ stages' = IF r.kind = "http" /\ r.status < 400
                   THEN Append(stages, "decode") ELSE stages
    /\ CASE r.kind = "neterr" ->
              \* if err != nil { if attempt < attempts-1 { sleep; continue };
              \*                 llmFailures.Add(1); return "request failed" }
              IF attempt < retryAttempts - 1
                THEN /\ sendPc' = "sleep"
                     /\ UNCHANGED <<attempt, result, okCalls, errCalls, llmRequests,
                                    llmFailures>>
                ELSE /\ Return("request failed", FALSE)
                     /\ llmFailures' = llmFailures + 1
                     /\ UNCHANGED <<attempt, llmRequests>>
         [] r.kind = "readerr" ->
              \* the closure returns with err set
              NextPass
         [] r.kind = "http" /\ r.status >= 400 ->
              \* the closure sleeps for a 5xx or 429 that has attempts left, and
              \* returns with err = &apiErr in every case
              IF RetryStatus(r) /\ attempt < retryAttempts - 1
                THEN /\ sendPc' = "sleep"
                     /\ UNCHANGED <<attempt, result, okCalls, errCalls, llmRequests,
                                    llmFailures>>
                ELSE NextPass
         [] r.kind = "http" /\ r.status < 400 ->
              \* respBody is non-nil for every caller of sendRequest
              IF Decodes(r)
                THEN /\ Return("ok", TRUE)
                     /\ llmRequests' = llmRequests + 1
                     /\ UNCHANGED <<attempt, llmFailures>>
                ELSE NextPass
    /\ UNCHANGED <<retryAttempts, retryBackoff, call, cancelled, sleeps, callsMade>>
    /\ UNCHANGED <<limVars, strVars, gameVars, parseVars, worldVars, assetVars>>

\* sendRequest: time.Sleep(time.Duration(attempt+1)*c.retryBackoff), then the
\* next pass of the loop.
sendSleep ==
    /\ sendPc = "sleep"
    /\ sleeps' = Append(sleeps, [after |-> attempt + 1, ms |-> Backoff(attempt)])
    /\ attempt' = attempt + 1
    /\ sendPc' = "acquire"
    /\ UNCHANGED <<retryAttempts, retryBackoff, llmRequests, llmFailures, call, cancelled,
                   result, responses, inflight, stages, okCalls, errCalls, callsMade>>
    /\ UNCHANGED <<limVars, strVars, gameVars, parseVars, worldVars, assetVars>>

\* GenerateWithLLM for deepseek_r1 and llama_3_1_70b: the outcome r of the one
\* request; only the success path touches the metrics.
directResponse(r) ==
    /\ sendPc = "direct"
    /\ r \in OutcomesNow
    /\ responses' = Append(responses, r)
    /\ inflight' = inflight - 1
    /\ stages' = IF r.kind = "http" /\ r.status < 400
                   THEN Append(stages, "decode") ELSE stages
    /\ CASE r.kind = "neterr" ->
              /\ Return("request failed", FALSE) /\ UNCHANGED llmRequests
         [] r.kind = "readerr" ->
              /\ Return("read body", FALSE) /\ UNCHANGED llmRequests
         [] r.kind = "http" /\ r.status >= 400 ->
              /\ Return("http status", FALSE) /\ UNCHANGED llmRequests
         [] r.kind = "http" /\ r.status < 400 ->
              IF HasContent(r)
                THEN /\ Return("ok", TRUE) /\ llmRequests' = llmRequests + 1
                ELSE /\ Return("produced no content", FALSE) /\ UNCHANGED llmRequests
    /\ UNCHANGED <<retryAttempts, retryBackoff, llmFailures, call, attempt, cancelled,
                   sleeps, callsMade>>
    /\ UNCHANGED <<limVars, strVars, gameVars, parseVars, worldVars, assetVars>>

\* AnalyzeVision: the outcome r of the one request; the body is decoded whatever
\* the status, and an error object in it is the error returned.
visionResponse(r) ==
    /\ sendPc = "vision"
    /\ r \in OutcomesNow
    /\ responses' = Append(responses, r)
    /\ inflight' = inflight - 1
    /\ stages' = IF r.kind = "http" THEN Append(stages, "decode") ELSE stages
    /\ sendPc' = "idle"
    /\ result' = CASE r.kind # "http" -> "request failed"
                   [] r.kind = "http" /\ ~Decodes(r) -> "decode response"
                   [] r.kind = "http" /\ Decodes(r) /\ r.status >= 400 -> "api error"
                   [] OTHER -> "ok"
    /\ UNCHANGED <<retryAttempts, retryBackoff, llmRequests, llmFailures, call, attempt,
                   cancelled, sleeps, okCalls, errCalls, callsMade>>
    /\ UNCHANGED <<limVars, strVars, gameVars, parseVars, worldVars, assetVars>>

(***************************************************************************)
(* Streaming call: GenerateWithLLMStream                                    *)
(***************************************************************************)

\* What reader.ReadString('\n') gives and what the loop does with it:
\*   "token"  a JSON line with delta, text or one choice: one counted send
\*   "pair"   a JSON line whose choices give two texts: two counted sends
\*   "raw"    a line that is no JSON or has no known field: out<-line, uncounted
\*   "blank"  an empty line, or choices without text: nothing is sent
\*   "done"   the [DONE] sentinel, "eof" the end of the body, "err" a read error
Lines == {"token", "pair", "raw", "blank", "done", "eof", "err"}

\* Once ctx is done the body read fails.
LinesNow == IF strCancelled THEN {"err"} ELSE Lines

\* The sends a line asks for.
Sends(l) ==
    CASE l = "token" -> [n |-> 1, counted |-> TRUE]
      [] l = "pair" -> [n |-> 2, counted |-> TRUE]
      [] l = "raw" -> [n |-> 1, counted |-> FALSE]
      [] OTHER -> [n |-> 0, counted |-> FALSE]

InitStream ==
    /\ strPc = "idle"
    /\ out = 0
    /\ errCh = 0
    /\ pending = [n |-> 0, counted |-> FALSE]
    /\ strCancelled = FALSE
    /\ consPc = "receiving"
    /\ llmStreamReqs = 0
    /\ llmStreamTokens = 0
    /\ streamsMade = 0

\* GenerateWithLLMStream(ctx, req): makes out and errCh and starts the
\* goroutine, for every model.
GenerateWithLLMStream(model) ==
    /\ strPc \in {"idle", "closed"}
    /\ streamsMade < MaxStreams
    /\ strPc' = "acquire"
    /\ out' = 0
    /\ errCh' = 0
    /\ pending' = [n |-> 0, counted |-> FALSE]
    /\ strCancelled' = FALSE
    /\ consPc' = "receiving"
    /\ streamsMade' = streamsMade + 1
    /\ call' = [op |-> "GenerateWithLLMStream", model |-> model]
    /\ stages' = <<>>
    /\ UNCHANGED <<llmStreamReqs, llmStreamTokens>>
    /\ UNCHANGED <<retryAttempts, retryBackoff, llmRequests, llmFailures, sendPc, attempt,
                   cancelled, result, responses, sleeps, inflight, okCalls, errCalls,
                   callsMade>>
    /\ UNCHANGED <<limVars, gameVars, parseVars, worldVars, assetVars>>

\* The caller's context is cancelled or its deadline passes.
streamCancel ==
    /\ strPc \in {"acquire", "http", "read", "send"}
    /\ ~strCancelled
    /\ strCancelled' = TRUE
    /\ UNCHANGED <<strPc, out, errCh, pending, consPc, llmStreamReqs, llmStreamTokens,
                   streamsMade>>
    /\ UNCHANGED <<limVars, cliVars, gameVars, parseVars, worldVars, assetVars>>

\* the goroutine: c.acquire(), then the request is built and handed to
\* c.httpClient.Do
streamAcquire ==
    /\ strPc = "acquire"
    /\ chans[tokens].len > 0
    /\ chans' = [chans EXCEPT ![tokens].len = @ - 1]
    /\ winAcq' = winAcq + 1
    /\ strPc' = "http"
    /\ stages' = stages \o <<"permit", "http_plain">>
    /\ UNCHANGED <<out, errCh, pending, strCancelled, consPc, llmStreamReqs,
                   llmStreamTokens, streamsMade>>
    /\ UNCHANGED <<retryAttempts, retryBackoff, llmRequests, llmFailures, call, sendPc,
                   attempt, cancelled, result, responses, sleeps, inflight, okCalls,
                   errCalls, callsMade>>
    /\ UNCHANGED <<rateLimitRPS, tokens, tickers, phase, setPc, setCount, acq,
                   sinceRefill, lastGap>>
    /\ UNCHANGED <<gameVars, parseVars, worldVars, assetVars>>

\* the goroutine returns: the deferred close(errCh) and close(out) run
streamClose == strPc' = "closed"

\* the goroutine: the outcome r of c.httpClient.Do: an error or a status >= 400
\* is sent on errCh and the goroutine returns
streamDo(r) ==
    /\ strPc = "http"
    /\ r \in (IF strCancelled THEN {NetErr} ELSE {NetErr} \cup {Http(s, "json") : s \in Statuses})
    /\ IF r.kind = "http" /\ r.status < 400
         THEN /\ llmStreamReqs' = llmStreamReqs + 1
              /\ strPc' = "read"
              /\ UNCHANGED errCh
         ELSE /\ errCh < ErrCap
              /\ errCh' = errCh + 1
              /\ streamClose
              /\ UNCHANGED llmStreamReqs
    /\ UNCHANGED <<out, pending, strCancelled, consPc, llmStreamTokens, streamsMade>>
    /\ UNCHANGED <<limVars, cliVars, gameVars, parseVars, worldVars, assetVars>>

\* the goroutine: one reader.ReadString('\n') and the decoding of the line
streamRead(l) ==
    /\ strPc = "read"
    /\ l \in LinesNow
    /\ Sends(l).counted => llmStreamTokens + Sends(l).n <= MaxStreamTokens
    /\ pending' = Sends(l)
    /\ stages' = IF l \in {"token", "pair", "raw", "blank"} /\ (Len(stages) = 0 \/ stages[Len(stages)] # "decode")
                   THEN Append(stages, "decode") ELSE stages
    /\ CASE l \in {"token", "pair", "raw"} -> strPc' = "send" /\ UNCHANGED errCh
         [] l = "blank" -> strPc' = "read" /\ UNCHANGED errCh
         [] l \in {"done", "eof"} -> streamClose /\ UNCHANGED errCh
         [] l = "err" -> errCh < ErrCap /\ errCh' = errCh + 1 /\ streamClose
    /\ UNCHANGED <<out, strCancelled, consPc, llmStreamReqs, llmStreamTokens, streamsMade>>
    /\ UNCHANGED <<retryAttempts, retryBackoff, llmRequests, llmFailures, call, sendPc,
                   attempt, cancelled, result, responses, sleeps, inflight, okCalls,
                   errCalls, callsMade>>
    /\ UNCHANGED <<limVars, gameVars, parseVars, worldVars, assetVars>>

\* the goroutine: out <- chunk, a send that blocks while the buffer is full,
\* then llmStreamTokens.Add(1) for a decoded token
streamSend ==
    /\ strPc = "send"
    /\ out < OutCap
    /\ out' = out + 1
    /\ llmStreamTokens' = IF pending.counted THEN llmStreamTokens + 1 ELSE llmStreamTokens
    /\ pending' = [pending EXCEPT !.n = @ - 1]
    /\ strPc' = IF pending.n = 1 THEN "read" ELSE "send"
    /\ UNCHANGED <<errCh, strCancelled, consPc, llmStreamReqs, streamsMade>>
    /\ UNCHANGED <<limVars, cliVars, gameVars, parseVars, worldVars, assetVars>>

\* the consumer receives one chunk from out
consumerRecv ==
    /\ consPc = "receiving"
    /\ out > 0
    /\ out' = out - 1
    /\ UNCHANGED <<strPc, errCh, pending, strCancelled, consPc, llmStreamReqs,
                   llmStreamTokens, streamsMade>>
    /\ UNCHANGED <<limVars, cliVars, gameVars, parseVars, worldVars, assetVars>>

\* the consumer stops receiving from out
consumerStop ==
    /\ consPc = "receiving"
    /\ strPc # "idle"
    /\ consPc' = "stopped"
    /\ UNCHANGED <<strPc, out, errCh, pending, strCancelled, llmStreamReqs,
                   llmStreamTokens, streamsMade>>
    /\ UNCHANGED <<limVars, cliVars, gameVars, parseVars, worldVars, assetVars>>

(***************************************************************************)
(* The game: the texts of the Director and of Gemini, and their metrics     *)
(*                                                                         *)
(* A text is a sequence of atoms: "{" and "}", a stretch of prose, a key    *)
(* with its colon ("metrics":), and a whole member with an integer or a     *)
(* string value ("economy":5, "level":"extreme"). Commas and white space    *)
(* are left out.                                                           *)
(***************************************************************************)

Atom(a, k, v, s) == [a |-> a, k |-> k, v |-> v, s |-> s]
Open == Atom("{", "", 0, "")
Close == Atom("}", "", 0, "")
Prose == Atom("prose", "", 0, "")
Key(k) == Atom("key", k, 0, "")
IntMember(k, v) == Atom("int", k, v, "")
StrMember(k, s) == Atom("str", k, 0, s)

\* {"metrics":{ ... }}
MetricsObject(members) == <<Open, Key("metrics"), Open>> \o members \o <<Close, Close>>

\* {"impacts":{"economy":{"level":l,"direction":d}}}
ImpactDecision(m, l, d) ==
    <<Open, Key("impacts"), Open, Key(m), Open, StrMember("level", l),
      StrMember("direction", d), Close, Close, Close>>

\* The texts ProcessEvent puts in decision.Reasoning and GenerateText returns
\* to directorMetricsViaGemini: nothing, prose alone, an analysis followed by
\* the final metrics object the prompt asks for, that object alone, and a
\* decision by level and direction.
EvalTexts ==
    {<<>>,
     <<Prose>>,
     <<Prose>> \o MetricsObject(<<IntMember("economy", 5), IntMember("security", -3)>>),
     MetricsObject(<<IntMember("economy", 5)>>),
     <<Prose>> \o ImpactDecision("economy", "extreme", "-"),
     ImpactDecision("economy", "high", "0")}

\* strings.LastIndex(text, a), counted from 1; 0 when a does not occur
LastIndex(text, a) ==
    SetMax({0} \cup {i \in 1..Len(text) : text[i].a = a})

\* The index of the "}" that closes the object whose members start at s[i],
\* or 0 when the members are not those of a JSON object.
RECURSIVE ObjectEnd(_, _)
ObjectEnd(s, i) ==
    IF i > Len(s) THEN 0
    ELSE IF s[i].a = "}" THEN i
    ELSE IF s[i].a \in {"int", "str"} THEN ObjectEnd(s, i + 1)
    ELSE IF s[i].a = "key" /\ i < Len(s) /\ s[i + 1].a = "{"
      THEN LET e == ObjectEnd(s, i + 2)
           IN  IF e = 0 THEN 0 ELSE ObjectEnd(s, e + 1)
    ELSE 0

\* What json.Unmarshal leaves in outer.Metrics (a map[string]int) for the
\* value of a "metrics" key whose members are s[i..e-1]: every member must be
\* an integer member.
MetricsMap(s, i, e) ==
    [ok   |-> \A j \in i..(e - 1) : s[j].a = "int",
     keys |-> {s[j].k : j \in i..(e - 1)},
     val  |-> [k \in {s[j].k : j \in i..(e - 1)} |->
                 s[SetMax({j \in i..(e - 1) : s[j].k = k})].v]]

NoMetricsMap == [ok |-> TRUE, keys |-> {}, val |-> <<>>]

\* json.Unmarshal of the members of the outer object from s[i] on, acc being
\* outer.Metrics so far: a "metrics" key fills the map, any other member is
\* skipped. The result is the index of the closing "}" (0 on an error) and
\* the map.
RECURSIVE UnmarshalOuter(_, _, _)
UnmarshalOuter(s, i, acc) ==
    IF i > Len(s) THEN [end |-> 0, m |-> acc]
    ELSE IF s[i].a = "}" THEN [end |-> i, m |-> acc]
    ELSE IF s[i].a \in {"int", "str"}
      THEN IF s[i].k = "metrics"
             THEN [end |-> 0, m |-> acc]
             ELSE UnmarshalOuter(s, i + 1, acc)
    ELSE IF s[i].a = "key" /\ i < Len(s) /\ s[i + 1].a = "{"
      THEN LET e == ObjectEnd(s, i + 2)
           IN  IF e = 0 THEN [end |-> 0, m |-> acc]
               ELSE IF s[i].k # "metrics" THEN UnmarshalOuter(s, e + 1, acc)
               ELSE IF MetricsMap(s, i + 2, e).ok
                 THEN UnmarshalOuter(s, e + 1, MetricsMap(s, i + 2, e))
                 ELSE [end |-> 0, m |-> acc]
    ELSE [end |-> 0, m |-> acc]

\* json.Unmarshal([]byte(fragment), &outer) == nil && len(outer.Metrics) > 0
\* for a fragment that starts with "{", and outer.Metrics
UnmarshalMetrics(fragment) ==
    LET u == UnmarshalOuter(fragment, 2, NoMetricsMap)
    IN  [ok |-> u.end = Len(fragment) /\ u.m.keys # {}, m |-> u.m]

MetricNames ==
    {"economy", "security", "diplomacy", "environment", "approval", "stability"}

\* WorldMetrics{}
ZeroImpact == [m \in MetricNames |-> 0]

\* WorldMetrics{Economy: float64(m["economy"]), ...}: a missing key reads 0
FromMap(m) ==
    [n \in MetricNames |-> IF n \in m.keys THEN m.val[n] ELSE 0]

\* parseDirectorMetricsFromReasoning(text)
parseDirectorMetricsFromReasoning(text) ==
    LET start == LastIndex(text, "{")
        end == LastIndex(text, "}")
        u == UnmarshalMetrics(SubSeq(text, start, end))
    IN  IF start >= 1 /\ end > start /\ u.ok
          THEN [impact |-> FromMap(u.m), ok |-> TRUE]
          ELSE [impact |-> ZeroImpact, ok |-> FALSE]

\* The categories of the events, as far as the heuristic tells them apart:
\* two it knows and one it does not.
Categories == {"economy", "security", "other"}

\* the switch of mapDirectorDecisionToMetrics
CategoryImpact(category) ==
    CASE category = "economy" ->
           [ZeroImpact EXCEPT !.economy = 2, !.approval = 1, !.stability = 1]
      [] category = "security" ->
           [ZeroImpact EXCEPT !.security = 3, !.stability = 2, !.diplomacy = -1]
      [] OTHER -> ZeroImpact

\* mapDirectorDecisionToMetrics(decision, category), text being decision.Reasoning
mapDirectorDecisionToMetrics(text, category) ==
    LET start == LastIndex(text, "{")
        end == LastIndex(text, "}")
        u == UnmarshalMetrics(SubSeq(text, start, end))
    IN  IF start >= 1 /\ end > start /\ u.ok
          THEN FromMap(u.m)
          ELSE CategoryImpact(category)

\* extractAnalysisText(s): the text before the last JSON object
extractAnalysisText(s) ==
    LET start == LastIndex(s, "{")
        end == LastIndex(s, "}")
    IN  IF start >= 1 /\ end > start THEN SubSeq(s, 1, start - 1) ELSE s

\* What rand.Float64() gives to randomImpact, in tenths; one draw stands for
\* the six.
RandomDraws == {0, 5, 9}

\* g.randomImpact(): (rand.Float64()-0.5)*20, and *10 for Approval and Stability
randomImpact(draw) ==
    [m \in MetricNames |->
       IF m \in {"approval", "stability"} THEN draw - 5 ELSE 2 * draw - 10]

\* An update of the metrics that does not clamp.
unclamped(value, min, max) == value

\* clamp(value, min, max)
clamp(value, min, max) ==
    IF value < min THEN min ELSE IF value > max THEN max ELSE value

\* g.updateWorldMetrics(impact): the metrics it leaves
updateWorldMetrics(impact) ==
    [m \in MetricNames |-> clamp(metrics[m] + impact[m], MetricFloor, MetricCeil)]

(***************************************************************************)
(* The game: StartNewTurn, its advisor workers and the advisor cascade      *)
(***************************************************************************)

\* advisorDefinitions of NewPresidentSim, bounded to NumAdvisors advisors
AdvisorIds == 1..NumAdvisors

\* A fallback advice with nothing in it.
synthFallbackEmpty == ""

\* synthFallbackAdvice(advisor)
synthFallbackAdvice == "Provide a stabilizing course"

\* What llama.Complete gives when it answers in time: an error (transport,
\* status outside 2xx, decoding, empty response), or a text from which
\* extractAdvisorOpinion draws nothing, a text looksMetaLike rejects, or a
\* usable opinion.
PrimaryOutcomes == {"error", "empty", "meta", "usable"}

\* What gemini GenerateText gives when it answers in time, likewise.
SecondaryOutcomes == {"error", "empty", "meta", "usable"}

\* What a provider call can meet: each outcome after FastLatency seconds, or
\* no answer before SlowLatency seconds have passed.
Answers(outcomes) ==
    {[o |-> r, lat |-> FastLatency] : r \in outcomes}
        \cup {[o |-> "none", lat |-> SlowLatency]}

AIUsageStats == [AdvisorTheta |-> 0, AdvisorGemini |-> 0,
                 DirectorTheta |-> 0, DirectorGemini |-> 0]

\* A goroutine of StartNewTurn that does not run: its position, the locals
\* of getAdvisorAdviceStream (usedTheta, final, the returned error), the
\* counter and register of a Stats.X++ under way, the outcome of the primary
\* call and the start and deadline of the secondary call while it is in
\* flight, and for the observers the tier that gave final, the counter the
\* worker wrote and the stages the request went through.
IdleWorker ==
    [pc |-> "idle", primary |-> "none", secStart |-> 0, secDeadline |-> 0,
     usedTheta |-> FALSE, final |-> "", tier |-> "none", err |-> FALSE,
     field |-> "none", reg |-> 0, counted |-> "none", trace |-> <<>>]

\* no answer of a provider: the error, or the call not made
NoText == [err |-> TRUE, text |-> <<>>]

NoEval ==
    [evaluation |-> "", err |-> FALSE, tier |-> "none", impact |-> ZeroImpact,
     text |-> <<>>, category |-> "other", before |-> ZeroImpact]

\* What randVal gives between MetricMin and MetricMax for the values the
\* environment may set them to; one value stands for the six metrics.
MetricStarts == {DefaultMetricMin, DefaultMetricMax, MetricCeil - 1, MetricFloor + 5}

\* the requests that may run ProcessPlayerChoice
Requests == 1..NumRequests

\* A request that is not running: its position, the Turn of the TurnResult
\* it read and what ProcessEvent returned to it.
IdleRequest == [pc |-> "idle", turnNo |-> 0, director |-> NoText]

\* json.NewEncoder(w).Encode(resp) of a handler, or what StartNewTurn returned
\* to the caller that is not one: the status, GameOver, whether TurnResult
\* and Newspaper are set, Turn, and whether an error was returned.
Response(h, status, over, tr, t) ==
    [handler |-> h, status |-> status, gameOver |-> over, turnResult |-> tr,
     newspaper |-> over, metrics |-> over, turn |-> t, err |-> FALSE]

\* no response: nothing was asked yet, or a request is being served
NoResponse ==
    [handler |-> "none", status |-> 0, gameOver |-> FALSE, turnResult |-> FALSE,
     newspaper |-> FALSE, metrics |-> FALSE, turn |-> 0, err |-> FALSE]

\* NewPresidentSim: Turn 1, MaxTurns from loadGameConfig (PRES_SIM_MAX_TURNS),
\* empty Stats, the advisors; nothing is running.
InitGame ==
    /\ advisors = AdvisorIds
    /\ geminiKey \in BOOLEAN
    /\ turn = 1
    /\ maxTurns \in 1..MaxTurnsEnv
    /\ stats = AIUsageStats
    /\ turnPc = "idle"
    /\ selected = {}
    /\ wk = [w \in AdvisorIds |-> IdleWorker]
    /\ advisorResponses = <<>>
    /\ currentTurn = <<>>
    /\ ev = NoEval
    /\ statsAtStart = AIUsageStats
    /\ \E v \in MetricStarts : metrics = [m \in MetricNames |-> v]
    /\ history = <<>>
    /\ rounds = 0
    /\ rq = [r \in Requests |-> IdleRequest]
    /\ resp = NoResponse

\* The environment the specifications that are not about the turn limit or
\* the metrics run in: PRES_SIM_MAX_TURNS=1 and every metric
\* starting at MetricMin.
OneTurnEnv ==
    /\ maxTurns = 1
    /\ metrics = [m \in MetricNames |-> DefaultMetricMin]

\* What rand.Shuffle followed by advisors[:count] can give: n of the advisors.
\* Their order in the slice only is the order in which the loop starts the
\* goroutines, so the selection is kept as a set and a worker is named by
\* its advisor.
Selections(n) ==
    {s \in SUBSET advisors : Cardinality(s) = n}

\* selectRandomAdvisors(count): if count > len(advisors) { count = len(advisors) }
SelectLen(count) == Min(count, Cardinality(advisors))

\* A StartNewTurn without the turn limit.
StartNewTurnUnlimited ==
    /\ turnPc \in {"idle", "built"}
    /\ \A r \in Requests : rq[r].pc = "idle"
    /\ rounds < MaxRounds
    /\ \E s \in Selections(SelectLen(SelectCount)) : selected' = s
    /\ wk' = [w \in AdvisorIds |->
                IF w \in selected'
                  THEN [IdleWorker EXCEPT !.pc = "primary",
                                          !.trace = <<"primary_call">>]
                  ELSE IdleWorker]
    /\ advisorResponses' = <<>>
    /\ statsAtStart' = stats
    /\ ev' = NoEval
    /\ turnPc' = "workers"
    /\ rounds' = rounds + 1
    /\ resp' = NoResponse
    /\ UNCHANGED <<advisors, geminiKey, turn, maxTurns, stats, currentTurn>>
    /\ UNCHANGED <<metrics, history, rq>>
    /\ UNCHANGED <<limVars, cliVars, strVars, parseVars, assetVars>>

\* StartNewTurn up to wg.Wait(): the turn limit, the event (GenerateTurnEvent
\* returns no error), the selection, an empty result slice, and for every
\* selected advisor wg.Add(1) and a goroutine, which makes its context with
\* WithTimeout(ctx, 35s) and runs getAdvisorAdviceStream up to
\* llama.New().Complete: the prompt, usedTheta := false, the inner
\* WithTimeout(ctx, 35s), and the request is sent. A worker counts time from
\* the creation of its context. The turn has no evaluation yet and the
\* request no response.
StartNewTurn ==
    /\ turnPc \in {"idle", "built"}
    /\ \A r \in Requests : rq[r].pc = "idle"
    /\ rounds < MaxRounds
    /\ turn <= maxTurns
    /\ \E s \in Selections(SelectLen(SelectCount)) : selected' = s
    /\ wk' = [w \in AdvisorIds |->
                IF w \in selected'
                  THEN [IdleWorker EXCEPT !.pc = "primary",
                                          !.trace = <<"primary_call">>]
                  ELSE IdleWorker]
    /\ advisorResponses' = <<>>
    /\ statsAtStart' = stats
    /\ ev' = NoEval
    /\ turnPc' = "workers"
    /\ rounds' = rounds + 1
    /\ resp' = NoResponse
    /\ UNCHANGED <<advisors, geminiKey, turn, maxTurns, stats, currentTurn>>
    /\ UNCHANGED <<metrics, history, rq>>
    /\ UNCHANGED <<limVars, cliVars, strVars, parseVars, assetVars>>

\* StartNewTurn when Turn > MaxTurns: it returns an error and no turn.
StartNewTurnOver ==
    /\ turnPc \in {"idle", "built"}
    /\ \A r \in Requests : rq[r].pc = "idle"
    /\ turn > maxTurns
    /\ resp' = [Response("StartNewTurn", 0, FALSE, FALSE, turn) EXCEPT !.err = TRUE]
    /\ UNCHANGED <<metrics, history, rounds, rq>>
    /\ UNCHANGED <<limVars, cliVars, strVars, gameVars, parseVars, assetVars>>

\* The instant the primary call is given up: the worker's context and the
\* inner context of getAdvisorAdviceStream (both made at instant 0 of the
\* worker, the inner one a child of the other) and the Timeout of the HTTP
\* client of llama.New().
PrimaryDeadline ==
    Min(WorkerTimeout, Min(PrimaryTimeout, LlamaHTTPTimeout))

\* advisorOpinionViaGemini: ctx2 := WithTimeout(ctx, 15s), where ctx is the
\* worker's context: the earlier of the two deadlines holds.
SecondaryDeadline(t) == Min(WorkerTimeout, t + SecondaryTimeout)

\* getAdvisorAdviceStream, lines 294-300 after the secondary gave nothing, and
\* line 273 on the error path: the static fallback.
SecondaryFailed(k) ==
    LET k2 == [k EXCEPT !.primary = "none", !.secStart = 0, !.secDeadline = 0,
                        !.trace = @ \o <<"secondary_failed">>]
        fb == synthFallbackAdvice
    IN  IF ~k.usedTheta
          THEN [k2 EXCEPT !.pc = "return", !.final = fb, !.tier = "static"]
          ELSE IF fb = ""
                 THEN [k2 EXCEPT !.pc = "return", !.err = TRUE]
                 ELSE [k2 EXCEPT !.pc = "count", !.field = "AdvisorTheta",
                                 !.final = fb, !.tier = "static"]

\* A cascade that goes from the primary straight to the static fallback.
SkipSecondary(k, t) ==
    [k EXCEPT !.pc = "return", !.final = synthFallbackAdvice, !.tier = "static"]

\* advisorOpinionViaGemini(ctx, advisor, event) is called at instant t: without
\* an API key it returns an error at once, else the request is sent.
CallSecondary(k, t) ==
    LET k2 == [k EXCEPT !.trace = @ \o <<"secondary_call">>]
    IN  IF ~geminiKey
          THEN SecondaryFailed(k2)
          ELSE [k2 EXCEPT !.pc = "secondary", !.secStart = t,
                          !.secDeadline = SecondaryDeadline(t)]

\* Worker w runs on from k to its next wait. At "count" it is at a
\* g.sim.state.Stats.X++, a plain read and a plain write of an int shared by
\* the workers: it reads. At "return" getAdvisorAdviceStream has returned: on
\* an error the response is made of synthFallbackAdvice; mu.Lock(); append;
\* mu.Unlock(); wg.Done().
Proceed(w, k) ==
    CASE k.pc = "count" ->
           /\ wk' = [wk EXCEPT ![w] = [k EXCEPT !.pc = "write",
                                                !.reg = stats[k.field]]]
           /\ UNCHANGED advisorResponses
      [] k.pc = "return" ->
           /\ wk' = [wk EXCEPT ![w] = [k EXCEPT !.pc = "done",
                                                !.trace = @ \o <<"resolved">>]]
           /\ advisorResponses' = Append(advisorResponses,
                [id |-> w,
                 advice |-> IF k.err THEN synthFallbackAdvice ELSE k.final])
      [] OTHER ->
           /\ wk' = [wk EXCEPT ![w] = k]
           /\ UNCHANGED advisorResponses

\* llama.Complete returns, after a.lat seconds with outcome a.o, or at its
\* deadline with the context's error; getAdvisorAdviceStream goes on to its
\* next call or counter.
llamaReturns(w, a) ==
    /\ turnPc = "workers"
    /\ w \in selected
    /\ wk[w].pc = "primary"
    /\ LET k == wk[w]
           late == a.lat >= PrimaryDeadline
           o == IF late THEN "timeout" ELSE a.o
           t == IF late THEN PrimaryDeadline ELSE a.lat
           k2 == [k EXCEPT !.primary = o]
       IN  Proceed(w,
             CASE o \in {"error", "timeout"} ->
                    CallSecondary([k2 EXCEPT !.trace = @ \o <<"primary_failed">>], t)
               [] o \in {"empty", "meta"} ->
                    CallSecondary([k2 EXCEPT !.usedTheta = TRUE,
                                             !.trace = @ \o <<"primary_failed">>], t)
               [] OTHER ->
                    [k  EXCEPT !.usedTheta = TRUE, !.final = "primary opinion",
                               !.tier = "primary", !.pc = "count",
                               !.field = "AdvisorTheta",
                               !.trace = @ \o <<"primary_ok">>])
    /\ UNCHANGED <<advisors, geminiKey, turn, maxTurns, stats, turnPc, selected,
                   currentTurn, ev, statsAtStart>>
    /\ UNCHANGED <<limVars, cliVars, strVars, parseVars, worldVars, assetVars>>

\* GenerateText returns, after a.lat seconds with outcome a.o, or with the
\* context's error at the deadline (at once when ctx2 was made expired);
\* advisorOpinionViaGemini turns an empty or meta-like opinion into an error.
geminiReturns(w, a) ==
    /\ turnPc = "workers"
    /\ w \in selected
    /\ wk[w].pc = "secondary"
    /\ LET k == wk[w]
           dl == Min(k.secDeadline, k.secStart + GeminiHTTPTimeout)
           late == k.secStart + a.lat >= dl
           o == IF late THEN "timeout" ELSE a.o
       IN  Proceed(w,
             IF o = "usable"
               THEN [k  EXCEPT !.primary = "none", !.secStart = 0,
                               !.secDeadline = 0, !.pc = "count",
                               !.field = "AdvisorGemini",
                               !.final = "secondary opinion",
                               !.tier = "secondary", !.usedTheta = FALSE,
                               !.trace = @ \o <<"secondary_ok">>]
               ELSE SecondaryFailed(k))
    /\ UNCHANGED <<advisors, geminiKey, turn, maxTurns, stats, turnPc, selected,
                   currentTurn, ev, statsAtStart>>
    /\ UNCHANGED <<limVars, cliVars, strVars, parseVars, worldVars, assetVars>>

\* The write of g.sim.state.Stats.X++, after which getAdvisorAdviceStream
\* returns its response.
writeStat(w) ==
    /\ turnPc = "workers"
    /\ w \in selected
    /\ wk[w].pc = "write"
    /\ stats' = [stats EXCEPT ![wk[w].field] = wk[w].reg + 1]
    /\ Proceed(w, [wk[w] EXCEPT !.pc = "return", !.counted = wk[w].field,
                                !.field = "none", !.reg = 0])
    /\ UNCHANGED <<advisors, geminiKey, turn, maxTurns, turnPc, selected,
                   currentTurn, ev, statsAtStart>>
    /\ UNCHANGED <<limVars, cliVars, strVars, parseVars, worldVars, assetVars>>

\* A StartNewTurn that builds its result as soon as one worker has finished.
turnBuiltEarly ==
    /\ turnPc = "workers"
    /\ \E w \in selected : wk[w].pc = "done"
    /\ currentTurn' = advisorResponses
    /\ turnPc' = "built"
    /\ resp' = Response("new-round", StatusOK, FALSE, TRUE, turn)
    /\ eventImage' = ""
    /\ UNCHANGED <<advisors, geminiKey, turn, maxTurns, stats, selected, wk,
                   advisorResponses, ev, statsAtStart>>
    /\ UNCHANGED <<metrics, history, rounds, rq>>
    /\ UNCHANGED <<image, cache, stored, now, cres>>
    /\ UNCHANGED <<limVars, cliVars, strVars, parseVars>>

\* wg.Wait() returns once every worker has called wg.Done(): the TurnResult is
\* built from advisorResponses and the event, which has no image yet, stored
\* in CurrentTurn and returned, and handleNewRound answers with it.
turnBuilt ==
    /\ turnPc = "workers"
    /\ \A w \in selected : wk[w].pc = "done"
    /\ currentTurn' = advisorResponses
    /\ turnPc' = "built"
    /\ resp' = Response("new-round", StatusOK, FALSE, TRUE, turn)
    /\ eventImage' = ""
    /\ UNCHANGED <<advisors, geminiKey, turn, maxTurns, stats, selected, wk,
                   advisorResponses, ev, statsAtStart>>
    /\ UNCHANGED <<metrics, history, rounds, rq>>
    /\ UNCHANGED <<image, cache, stored, now, cres>>
    /\ UNCHANGED <<limVars, cliVars, strVars, parseVars>>

(***************************************************************************)
(* The game: ProcessPlayerChoice, evaluateChoice and the HTTP handlers      *)
(***************************************************************************)

\* g.randomEval(turnResult)
randomEval == "Fallback evaluation"

\* formatDirectorNarrative(turnResult, impact)
formatDirectorNarrative == "Action Analysis"

\* What g.sim.director.ProcessEvent gives: an error, or a decision with its
\* Reasoning.
DirectorOutcomes ==
    {[err |-> TRUE, text |-> <<>>]} \cup {[err |-> FALSE, text |-> t] : t \in EvalTexts}

\* What gemini GenerateText gives to directorMetricsViaGemini: an error or a
\* text.
GeminiEvalOutcomes ==
    {[err |-> TRUE, text |-> <<>>]} \cup {[err |-> FALSE, text |-> t] : t \in EvalTexts}

\* if strings.TrimSpace(analysis) == "" { analysis = formatDirectorNarrative(...) }
Narrative(text) ==
    IF extractAnalysisText(text) = <<>> THEN formatDirectorNarrative ELSE "analysis"

\* ProcessPlayerChoice after evaluateChoice returned (evaluation, impact, nil)
\* to request r: turnResult.Evaluation and Impact are set, the metrics are
\* updated, the turn goes to History, Turn++, CurrentTurn = nil; the handler
\* answers with the last item of History.
Evaluated(r, evaluation, tier, impact, text, category) ==
    /\ ev' = [evaluation |-> evaluation, err |-> FALSE, tier |-> tier,
              impact |-> impact, text |-> text, category |-> category,
              before |-> metrics]
    /\ metrics' = updateWorldMetrics(impact)
    /\ history' = Append(history, rq[r].turnNo)
    /\ turn' = turn + 1
    /\ currentTurn' = <<>>
    /\ turnPc' = "idle"
    /\ rq' = [rq EXCEPT ![r] = IdleRequest]
    /\ resp' = Response("evaluate-choice", StatusOK, FALSE, TRUE, turn + 1)

\* return g.randomEval(turnResult), g.randomImpact(), nil
EvaluatedAtRandom(r) ==
    /\ \E draw \in RandomDraws :
          Evaluated(r, randomEval, "static", randomImpact(draw), <<>>, "other")
    /\ UNCHANGED stats

\* analysis, impact, gerr := g.directorMetricsViaGemini(ctx, turnResult): without
\* an API key it returns an error at once, else the request is sent.
CallGeminiEval(r, d) ==
    IF geminiKey
      THEN /\ rq' = [rq EXCEPT ![r].pc = "gemini", ![r].director = d]
           /\ UNCHANGED <<ev, turn, currentTurn, stats, turnPc, metrics, history,
                          resp>>
      ELSE EvaluatedAtRandom(r)

\* handleEvaluateChoice and handlePlayerChoice with an active turn, and the
\* terminal's loop: turnResult := CurrentTurn is read, and ProcessPlayerChoice
\* runs up to g.sim.director.ProcessEvent in evaluateChoice. The server takes
\* no lock, so a request may arrive while another one is under way. The
\* request has no response yet.
ProcessPlayerChoice(r) ==
    /\ turnPc = "built"
    /\ rq[r].pc = "idle"
    /\ rq' = [rq EXCEPT ![r].pc = "director", ![r].turnNo = turn]
    /\ resp' = NoResponse
    /\ UNCHANGED <<advisors, geminiKey, turn, maxTurns, stats, turnPc, selected, wk,
                   advisorResponses, currentTurn, ev, statsAtStart>>
    /\ UNCHANGED <<metrics, history, rounds>>
    /\ UNCHANGED <<limVars, cliVars, strVars, parseVars, assetVars>>

\* ProcessEvent returns d to request r: with a final metrics object in the
\* Reasoning the Director's evaluation is used and counted, otherwise
\* evaluateChoice turns to Gemini.
directorReturns(r, d) ==
    /\ rq[r].pc = "director"
    /\ LET p == parseDirectorMetricsFromReasoning(d.text)
       IN  IF ~d.err /\ p.ok
             THEN /\ stats' = [stats EXCEPT !.DirectorTheta = @ + 1]
                  /\ Evaluated(r, Narrative(d.text), "primary", p.impact,
                               d.text, "other")
             ELSE CallGeminiEval(r, d)
    /\ UNCHANGED <<advisors, geminiKey, maxTurns, selected, wk, advisorResponses,
                   statsAtStart, rounds>>
    /\ UNCHANGED <<limVars, cliVars, strVars, parseVars, assetVars>>

\* directorMetricsViaGemini after GenerateText returned g, for an event of the
\* given category: imp := mapDirectorDecisionToMetrics(dd, category), and
\* the category fallback if that is zero.
directorMetricsViaGemini(g, category) ==
    LET imp == mapDirectorDecisionToMetrics(g.text, category)
    IN  IF imp = ZeroImpact
          THEN mapDirectorDecisionToMetrics(<<Open, Close>>, category)
          ELSE imp

\* directorMetricsViaGemini returns to request r: its evaluation is used and
\* counted, or on an error the random evaluation is returned. The category
\* of the turn's event is first read here.
geminiEvalReturns(r, g, category) ==
    /\ rq[r].pc = "gemini"
    /\ IF g.err
         THEN EvaluatedAtRandom(r)
         ELSE /\ stats' = [stats EXCEPT !.DirectorGemini = @ + 1]
              /\ Evaluated(r, Narrative(g.text), "secondary",
                           directorMetricsViaGemini(g, category), g.text,
                           category)
    /\ UNCHANGED <<advisors, geminiKey, maxTurns, selected, wk, advisorResponses,
                   statsAtStart, rounds>>
    /\ UNCHANGED <<limVars, cliVars, strVars, parseVars, assetVars>>

\* The handlers that need a turn: /api/evaluate-choice, /api/choice and
\* /api/generate-image.
TurnHandlers == {"evaluate-choice", "choice", "generate-image"}

\* A handler that answers 200 without a turn.
handleNoActiveTurnOK(h) ==
    /\ currentTurn = <<>>
    /\ resp' = Response(h, StatusOK, FALSE, FALSE, turn)
    /\ UNCHANGED <<metrics, history, rounds, rq>>
    /\ UNCHANGED <<limVars, cliVars, strVars, gameVars, parseVars, assetVars>>

\* A handler that needs a turn finds CurrentTurn == nil:
\* http.Error(w, "no active turn", http.StatusBadRequest).
handleNoActiveTurn(h) ==
    /\ currentTurn = <<>>
    /\ resp' = Response(h, StatusBadRequest, FALSE, FALSE, turn)
    /\ UNCHANGED <<metrics, history, rounds, rq>>
    /\ UNCHANGED <<limVars, cliVars, strVars, gameVars, parseVars, assetVars>>

\* A handleNewRound that starts over when the game is complete.
handleNewRoundAgain ==
    /\ turn > maxTurns
    /\ \A r \in Requests : rq[r].pc = "idle"
    /\ turnPc \in {"idle", "built"}
    /\ resp' = Response("new-round", StatusOK, TRUE, FALSE, 1)
    /\ turn' = 1
    /\ UNCHANGED <<advisors, geminiKey, maxTurns, stats, turnPc, selected, wk,
                   advisorResponses, currentTurn, ev, statsAtStart>>
    /\ UNCHANGED <<metrics, history, rounds, rq>>
    /\ UNCHANGED <<limVars, cliVars, strVars, parseVars, assetVars>>

\* handleNewRound (POST /api/new-round) when IsGameComplete(): the response
\* carries GameOver, the newspaper, the metrics and the stats, and no turn
\* is started.
handleNewRound ==
    /\ turn > maxTurns
    /\ \A r \in Requests : rq[r].pc = "idle"
    /\ turnPc \in {"idle", "built"}
    /\ resp' = Response("new-round", StatusOK, TRUE, FALSE, turn)
    /\ UNCHANGED <<metrics, history, rounds, rq>>
    /\ UNCHANGED <<limVars, cliVars, strVars, gameVars, parseVars, assetVars>>

\* handleStart (POST /api/start): Turn = 1, History and CurrentTurn emptied,
\* Stats = AIUsageStats{}, MaxTurns from loadGameConfig, each metric drawn
\* between MetricMin and MetricMax; the new game has no evaluation yet. The
\* HTTP server runs it whenever the request arrives.
handleStart ==
    /\ turn' = 1
    /\ currentTurn' = <<>>
    /\ stats' = AIUsageStats
    /\ history' = <<>>
    /\ rounds' = 0
    /\ \E v \in MetricStarts : metrics' = [m \in MetricNames |-> v]
    /\ resp' = Response("start", StatusOK, FALSE, FALSE, 1)
    /\ turnPc' = IF turnPc = "built" THEN "idle" ELSE turnPc
    /\ ev' = NoEval
    /\ UNCHANGED <<advisors, geminiKey, maxTurns, selected, wk,
                   advisorResponses, statsAtStart, rq>>
    /\ UNCHANGED <<limVars, cliVars, strVars, parseVars, assetVars>>

(***************************************************************************)
(* The response decoder: parseSSEorJSONCompletion                           *)
(*                                                                         *)
(* A body is the sequence of its lines (the text between two "\n"); a line  *)
(* is [data, pay]: data says that the line starts with "data:", pay is what *)
(* the line holds besides that prefix:                                      *)
(*   shape "empty"    nothing but white space,                              *)
(*   shape "done"     the sentinel [DONE],                                  *)
(*   shape "garbage"  a text that is not a JSON object,                     *)
(*   shape "choices"  a JSON object {"choices":[{...}]} whose choice holds  *)
(*                    delta.content = content and text = text, <<>> for a   *)
(*                    field that is absent.                                 *)
(* A text is the sequence of its pieces. Lines carry no leading white space.*)
(***************************************************************************)
Pieces == {"A", "B"}

PieceTexts == {<<>>} \cup {<<p>> : p \in Pieces}

Payloads ==
    {[shape |-> sh, content |-> <<>>, text |-> <<>>] : sh \in {"empty", "done", "garbage"}}
        \cup {[shape |-> "choices", content |-> c, text |-> t] :
                c \in PieceTexts, t \in PieceTexts}

BodyLines == [data : BOOLEAN, pay : Payloads]

Bodies == UNION {[1..n -> BodyLines] : n \in 0..MaxBodyLines}

\* what the decoder returns: the string made of the pieces of text when raw is
\* empty, the lines of raw verbatim otherwise; ret says that it has returned
Decoded(t, ls) == [ret |-> TRUE, text |-> t, raw |-> ls]

NoCompletion == [ret |-> FALSE, text |-> <<>>, raw |-> <<>>]

IsBlank(l) == ~l.data /\ l.pay.shape = "empty"

\* strings.TrimSpace(str), on lines: the blank lines at both ends go
RECURSIVE TrimBlankLines(_)
TrimBlankLines(b) ==
    IF b = <<>> THEN <<>>
    ELSE IF IsBlank(Head(b)) THEN TrimBlankLines(Tail(b))
    ELSE IF IsBlank(b[Len(b)]) THEN TrimBlankLines(SubSeq(b, 1, Len(b) - 1))
    ELSE b

\* strings.Contains(str, "\ndata:"): a line after the first starts with data:
IsSSE(b) == \E i \in 2..Len(b) : b[i].data

\* the body of the loop over the lines of an SSE body: what the line adds to agg
SSELineText(l) ==
    IF ~l.data THEN <<>>                               \* "", "[DONE]", no prefix
    ELSE IF l.pay.shape = "empty" THEN <<>>            \* "data:" alone
    ELSE IF l.pay.shape # "choices" THEN <<>>          \* json.Unmarshal fails
    ELSE l.pay.content \o l.pay.text                   \* delta.content, then text

RECURSIVE SSEText(_)
SSEText(b) == IF b = <<>> THEN <<>> ELSE SSELineText(Head(b)) \o SSEText(Tail(b))

\* json.Unmarshal(data, &obj) == nil: the body is one JSON object, white space
\* around it allowed
IsPlainJSON(b) ==
    LET t == TrimBlankLines(b)
    IN  Len(t) = 1 /\ ~t[1].data /\ t[1].pay.shape = "choices"

\* the plain JSON branch: text, then delta.content
PlainText(b) == LET l == TrimBlankLines(b)[1] IN l.pay.text \o l.pay.content

parseSSEorJSONCompletion(b) ==
    IF IsSSE(b) THEN Decoded(SSEText(b), <<>>)
    ELSE IF IsPlainJSON(b) /\ PlainText(b) # <<>> THEN Decoded(PlainText(b), <<>>)
    ELSE Decoded(<<>>, TrimBlankLines(b))

\* GenerateWithLLM reads a body and decodes it; the decoder keeps nothing from
\* one call to the next, so one call is followed
Decode(b) ==
    /\ ~completion.ret
    /\ body' = b
    /\ completion' = parseSSEorJSONCompletion(b)
    /\ UNCHANGED <<raw, opinion, dirty, sanitized>>
    /\ UNCHANGED <<limVars, cliVars, strVars, gameVars, worldVars, assetVars>>

(***************************************************************************)
(* The structured-output extractor: extractAdvisorOpinion                   *)
(*                                                                         *)
(* A text is the sequence of its atoms:                                     *)
(*   "{" "}" "." ":"  the characters themselves,                           *)
(*   "Q" a double quote, "BT" a backtick, "SP" a space, "NL" a newline,     *)
(*   "KEY"    the quoted key "advisor_opinion" with its colon,              *)
(*   "IKEY"   another quoted key with its colon ("impact":),                *)
(*   "LABEL"  the words Advisor opinion,                                    *)
(*   "META"   the words Let me,                                             *)
(*   "OLD" "NEW" "Raise"  words with none of the above in them.             *)
(* The members of a JSON object are written without the commas between     *)
(* them.                                                                    *)
(***************************************************************************)
Space == {"SP", "NL"}

Terminators == {".", "?", "!"}

Atoms == {"{", "}", ".", ":", "Q", "BT", "SP", "NL", "KEY", "IKEY", "LABEL", "META",
          "OLD", "NEW", "Raise"}

\* the pieces the texts given to the extractor are made of
Fragments ==
    { <<"{", "KEY", "Q", "OLD", "Q", "}">>,                       \* {"advisor_opinion":"OLD"}
      <<"{", "KEY", "Q", "NEW", "Q", "}">>,                       \* {"advisor_opinion":"NEW"}
      <<"{", "KEY", "Q", "NEW", "Q", "IKEY", "{", "}", "}">>,     \* ... with a nested object
      <<"{", "KEY", "Q", "Q", "}">>,                              \* {"advisor_opinion":""}
      <<"{", "KEY", "Q", "OLD", "Q">>,                            \* the closing brace is missing
      <<"{", "KEY", "OLD", "}">>,                                 \* the value is not quoted
      <<"{", "}">>,                                               \* {}
      <<"LABEL", ":", "SP", "Raise", ".">>,                       \* Advisor opinion: Raise.
      <<"LABEL", ":">>,                                           \* Advisor opinion:
      <<"Raise", ".">>,                                           \* Raise.
      <<"META", ".">>,                                            \* Let me.
      <<"SP">>,
      <<"NL">>,
      <<"NL", "NL">> }

RECURSIVE Flatten(_)
Flatten(ss) == IF ss = <<>> THEN <<>> ELSE Head(ss) \o Flatten(Tail(ss))

RawTexts == {Flatten(fs) : fs \in UNION {[1..n -> Fragments] : n \in 0..MaxFragments}}


\* the first index from i on of an atom in set (not in set), 0 when there is none
FirstIn(s, i, set) ==
    LET at == {j \in i..Len(s) : s[j] \in set}
    IN  IF at = {} THEN 0 ELSE SetMin(at)

FirstNotIn(s, i, set) == FirstIn(s, i, Atoms \ set)

From(s, i) == SubSeq(s, i, Len(s))

\* strings.Trim(s, cutset)
RECURSIVE Trim(_, _)
Trim(s, cut) ==
    IF s = <<>> THEN s
    ELSE IF Head(s) \in cut THEN Trim(Tail(s), cut)
    ELSE IF s[Len(s)] \in cut THEN Trim(SubSeq(s, 1, Len(s) - 1), cut)
    ELSE s

TrimSpace(s) == Trim(s, Space)

\* strings.Fields(s)
RECURSIVE Fields(_)
Fields(s) ==
    LET a == FirstNotIn(s, 1, Space)
        b == FirstIn(s, a, Space)
    IN  IF a = 0 THEN <<>>
        ELSE IF b = 0 THEN <<From(s, a)>>
        ELSE <<SubSeq(s, a, b - 1)>> \o Fields(From(s, b))

\* strings.Join(elems, sep)
RECURSIVE Join(_, _)
Join(elems, sep) ==
    IF elems = <<>> THEN <<>>
    ELSE IF Len(elems) = 1 THEN elems[1]
    ELSE elems[1] \o sep \o Join(Tail(elems), sep)

\* strings.Split(s, sep) for a separator of one atom ("\n") or of two ("\n\n")
RECURSIVE Split(_, _)
Split(s, sep) ==
    LET at == {i \in 1..(Len(s) - Len(sep) + 1) : SubSeq(s, i, i + Len(sep) - 1) = sep}
    IN  IF at = {} THEN <<s>>
        ELSE <<SubSeq(s, 1, SetMin(at) - 1)>> \o Split(From(s, SetMin(at) + Len(sep)), sep)

\* regexp ([^.?!]*[.?!]), FindAllString
RECURSIVE Sentences(_)
Sentences(s) ==
    LET e == FirstIn(s, 1, Terminators)
    IN  IF e = 0 THEN <<>> ELSE <<SubSeq(s, 1, e)>> \o Sentences(From(s, e + 1))

sanitizeOpinion(s) ==
    LET t == Trim(Trim(TrimSpace(s), {"BT"}), {"Q"})
        fs == Fields(t)
        joined == Join(fs, <<"SP">>)
        sents == Sentences(joined)
    IN  IF fs = <<>> THEN <<>>
        ELSE IF sents # <<>>
             THEN TrimSpace(Join(SubSeq(sents, 1, Min(MaxSentences, Len(sents))), <<"SP">>))
        ELSE joined

\* jsonCandidateRE, \{[\s\S]*?\}, FindAllStringIndex: from the next "{" to the
\* first "}" after it, then on from there
RECURSIVE jsonCandidates(_, _)
jsonCandidates(s, from) ==
    LET lb == FirstIn(s, from, {"{"})
        rb == IF lb = 0 THEN 0 ELSE FirstIn(s, lb + 1, {"}"})
    IN  IF rb = 0 THEN <<>>
        ELSE <<SubSeq(s, lb, rb)>> \o jsonCandidates(s, rb + 1)

Malformed == [ok |-> FALSE, end |-> 0, has |-> FALSE, val |-> <<>>]

\* encoding/json on the members of an object, from index i up to the brace that
\* closes it: [ok, end, has, val], end the index of that brace, has and val the
\* string under the key advisor_opinion (the last one when the key is repeated)
RECURSIVE ParseMembers(_, _, _)
ParseMembers(s, i, acc) ==
    LET k == FirstNotIn(s, i, Space)
    IN  IF k = 0 THEN Malformed
        ELSE IF s[k] = "}" THEN [ok |-> TRUE, end |-> k, has |-> acc.has, val |-> acc.val]
        ELSE IF s[k] = "KEY"
             THEN LET q == FirstNotIn(s, k + 1, Space)
                      e == IF q = 0 THEN 0 ELSE FirstIn(s, q + 1, {"Q", "NL"})
                  IN  IF q = 0 \/ e = 0 THEN Malformed
                      ELSE IF s[q] # "Q" \/ s[e] # "Q" THEN Malformed
                      ELSE ParseMembers(s, e + 1,
                                        [has |-> TRUE, val |-> SubSeq(s, q + 1, e - 1)])
        ELSE IF s[k] = "IKEY"
             THEN LET o == FirstNotIn(s, k + 1, Space)
                      r == IF o = 0 THEN Malformed
                           ELSE IF s[o] # "{" THEN Malformed
                           ELSE ParseMembers(s, o + 1, [has |-> FALSE, val |-> <<>>])
                  IN  IF ~r.ok THEN Malformed ELSE ParseMembers(s, r.end + 1, acc)
        ELSE Malformed

\* json.Unmarshal([]byte(frag), &m) and m["advisor_opinion"].(string)
Unmarshal(frag) ==
    LET r == IF frag = <<>> THEN Malformed
             ELSE IF frag[1] # "{" THEN Malformed
             ELSE ParseMembers(frag, 2, [has |-> FALSE, val |-> <<>>])
    IN  IF r.ok /\ r.end = Len(frag) THEN r ELSE Malformed

Miss == [hit |-> FALSE, val |-> <<>>]

Hit(v) == [hit |-> TRUE, val |-> v]

\* strategy 1: the candidates of jsonCandidateRE from the last to the first, the
\* first of them that parses and has a string under the key
JSONStrategy(r) ==
    LET locs == jsonCandidates(r, 1)
        good == {i \in 1..Len(locs) : Unmarshal(locs[i]).ok /\ Unmarshal(locs[i]).has}
    IN  IF good = {} THEN Miss ELSE Hit(Unmarshal(locs[SetMax(good)]).val)

\* regexp (?i)\"advisor_opinion\"\s*:\s*\"([^\"]+)\", FindStringSubmatch: the
\* leftmost key followed by a quoted text of one atom or more
RegexStrategy(r) ==
    LET Capture(k) ==
            LET q == FirstNotIn(r, k + 1, Space)
                e == IF q = 0 THEN 0 ELSE FirstIn(r, q + 1, {"Q"})
            IN  IF q = 0 \/ e = 0 THEN <<>>
                ELSE IF r[q] # "Q" THEN <<>>
                ELSE SubSeq(r, q + 1, e - 1)
        at == {k \in 1..Len(r) : r[k] = "KEY" /\ Capture(k) # <<>>}
    IN  IF at = {} THEN Miss ELSE Hit(Capture(SetMin(at)))

afterColon(s) ==
    LET idx == FirstIn(s, 1, {":", "KEY", "IKEY"})
    IN  IF idx > 0 THEN TrimSpace(From(s, idx + 1)) ELSE TrimSpace(s)

\* strategy 2: the first line that holds the label, what follows its first colon
LabelStrategy(r) ==
    LET lines == Split(r, <<"NL">>)
        at == {i \in 1..Len(lines) : FirstIn(lines[i], 1, {"LABEL"}) > 0}
    IN  IF at = {} THEN Miss ELSE Hit(afterColon(lines[SetMin(at)]))

looksMeta(s) == FirstIn(s, 1, {"META"}) > 0

splitParas(s) == Split(s, <<"NL", "NL">>)

\* strategy 3: the first paragraph that is not empty and does not look meta
ParagraphStrategy(r) ==
    LET paras == splitParas(r)
        at == {i \in 1..Len(paras) :
                 TrimSpace(paras[i]) # <<>> /\ ~looksMeta(TrimSpace(paras[i]))}
    IN  IF at = {} THEN Miss ELSE Hit(TrimSpace(paras[SetMin(at)]))

HasKey(r) == FirstIn(r, 1, {"KEY"}) > 0

extractAdvisorOpinion(text) ==
    LET r == TrimSpace(text)
    IN  IF r = <<>> THEN <<>>
        ELSE IF HasKey(r) /\ JSONStrategy(r).hit THEN sanitizeOpinion(JSONStrategy(r).val)
        ELSE IF HasKey(r) /\ RegexStrategy(r).hit THEN sanitizeOpinion(RegexStrategy(r).val)
        ELSE IF LabelStrategy(r).hit THEN sanitizeOpinion(LabelStrategy(r).val)
        ELSE IF ParagraphStrategy(r).hit THEN sanitizeOpinion(ParagraphStrategy(r).val)
        ELSE <<>>

NoOpinion == [ret |-> FALSE, text |-> <<>>]

\* getAdvisorAdviceStream hands the text of the model to the extractor; the
\* extractor keeps nothing from one call to the next, so one call is followed
Extract(text) ==
    /\ ~opinion.ret
    /\ raw' = text
    /\ opinion' = [ret |-> TRUE, text |-> extractAdvisorOpinion(text)]
    /\ UNCHANGED <<body, completion, dirty, sanitized>>
    /\ UNCHANGED <<limVars, cliVars, strVars, gameVars, worldVars, assetVars>>

\* the strings given to sanitizeOpinion: those of at most MaxDirtyLen atoms
DirtyAtoms == {"Q", "BT", "SP", ".", "Raise"}

DirtyTexts == UNION {[1..n -> DirtyAtoms] : n \in 0..MaxDirtyLen}

\* extractAdvisorOpinion hands a value to sanitizeOpinion; sanitizeOpinion keeps
\* nothing from one call to the next, so one call is followed
Sanitize(s) ==
    /\ ~sanitized.ret
    /\ dirty' = s
    /\ sanitized' = [ret |-> TRUE, text |-> sanitizeOpinion(s)]
    /\ UNCHANGED <<body, completion, raw, opinion>>
    /\ UNCHANGED <<limVars, cliVars, strVars, gameVars, worldVars, assetVars>>

InitParse ==
    /\ body = <<>>
    /\ completion = NoCompletion
    /\ raw = <<>>
    /\ opinion = NoOpinion
    /\ dirty = <<>>
    /\ sanitized = NoOpinion

(***************************************************************************)
(* The image client: Generate, and handleGenerateImage                      *)
(***************************************************************************)

\* What c.HTTP.Do and the response give for the Flux request: a transport
\* error, a status outside 2xx, a 2xx body from which extractImageURL draws
\* nothing, or a body with an image URL.
FluxOutcomes == {"transport", "status", "nourl", "url"}

\* What googleGeminiImageGenerateClient gives: a data URL or an error.
GeminiImageOutcomes == {"url", "error"}

\* no Generate call made
NoImage ==
    [called |-> FALSE, token |-> FALSE, flux |-> "url", url |-> "", err |-> FALSE,
     gemini |-> "none"]

\* What Generate returns: the URL or the error, and for the observers what
\* the Gemini generator gave, "none" when it was not called.
Generated(token, flux, url, err, gem) ==
    [called |-> TRUE, token |-> token, flux |-> flux, url |-> url, err |-> err,
     gemini |-> gem]

\* if url, err := c.googleGeminiImageGenerateClient(ctx, prompt); err == nil
\* { return url, nil }; return "", errors.New(...)
GeminiFallback(token, flux, gem) ==
    IF gem = "url"
      THEN Generated(token, flux, "gemini data url", FALSE, gem)
      ELSE Generated(token, flux, "", TRUE, gem)

\* (c *Client) Generate(ctx, prompt, width, height), token telling whether
\* c.APIKey is set
Generate(token, flux, gem) ==
    CASE ~token -> GeminiFallback(token, flux, gem)
      [] token /\ flux = "transport" -> Generated(token, flux, "", TRUE, "none")
      [] token /\ flux = "status" -> GeminiFallback(token, flux, gem)
      [] token /\ flux = "url" -> Generated(token, flux, "flux url", FALSE, "none")
      [] OTHER -> GeminiFallback(token, flux, gem)

\* handleGenerateImage (POST /api/generate-image) with an active turn:
\* imgc.New().Generate is called; on an error the answer is 502, else the URL
\* is attached to the turn's event and returned.
handleGenerateImage(token, flux, gem) ==
    /\ turnPc = "built"
    /\ currentTurn # <<>>
    /\ \A r \in Requests : rq[r].pc = "idle"
    /\ image' = Generate(token, flux, gem)
    /\ IF image'.err
         THEN /\ resp' = Response("generate-image", StatusBadGateway, FALSE, FALSE, turn)
              /\ UNCHANGED eventImage
         ELSE /\ resp' = Response("generate-image", StatusOK, FALSE, FALSE, turn)
              /\ eventImage' = image'.url
    /\ UNCHANGED <<metrics, history, rounds, rq>>
    /\ UNCHANGED <<cache, stored, now, cres>>
    /\ UNCHANGED <<limVars, cliVars, strVars, gameVars, parseVars>>

(***************************************************************************)
(* The asset cache: getCachedAsset, ListAssets, ClearCache                  *)
(*                                                                         *)
(* Time is counted in ticks. getCacheKey joins the type and the prompt      *)
(* with "_"; for the types of the generators, none of which begins with     *)
(* another followed by "_", different pairs give different keys, so a key   *)
(* is kept as the pair.                                                    *)
(***************************************************************************)

Prompts == {"p1", "p2"}

\* the types GenerateImage and GenerateTexture store under
AssetTypes == {"image", "texture"}

\* ag.getCacheKey(prompt, assetType)
getCacheKey(prompt, assetType) == <<assetType, prompt>>

CacheKeys == {getCacheKey(p, t) : p \in Prompts, t \in AssetTypes}

\* An asset: the key it was made for, GeneratedAt and *ExpiresAt.
NewAsset(key) ==
    [key |-> key, generatedAt |-> now, expiresAt |-> now + CacheDuration]

\* An expiry test that never finds an asset expired.
NeverExpired(asset) == FALSE

\* asset.ExpiresAt != nil && time.Now().After(*asset.ExpiresAt)
Expired(asset) == now > asset.expiresAt

\* nothing returned yet
NoCacheResult == [seq |-> FALSE, op |-> "none", key |-> <<"", "">>, assets |-> {}]

\* What the last call on the cache returned: the call, its key, and the
\* assets (at most one for a lookup); seq changes with every call.
CacheResult(op, key, assets) ==
    [seq |-> ~cres.seq, op |-> op, key |-> key, assets |-> assets]

\* ag.cache without the given keys: delete(ag.cache, key)
Without(keys) == [k \in (DOMAIN cache) \ keys |-> cache[k]]

\* ag.getCachedAsset(prompt, assetType)
getCachedAsset(prompt, assetType) ==
    LET key == getCacheKey(prompt, assetType)
    IN  /\ IF key \in DOMAIN cache
             THEN IF Expired(cache[key])
                    THEN /\ cache' = Without({key})
                         /\ cres' = CacheResult("get", key, {})
                    ELSE /\ cres' = CacheResult("get", key, {cache[key]})
                         /\ UNCHANGED cache
             ELSE /\ cres' = CacheResult("get", key, {})
                  /\ UNCHANGED cache
        /\ UNCHANGED <<stored, now, image, eventImage>>
        /\ UNCHANGED <<limVars, cliVars, strVars, gameVars, parseVars, worldVars>>

\* GenerateImage and GenerateTexture with the cache enabled: a cached asset
\* that has not expired is returned; otherwise the asset is generated (ok) and
\* stored with ExpiresAt = time.Now().Add(CacheDuration), or the error of the
\* API is returned and nothing is stored.
GenerateAsset(prompt, assetType, ok) ==
    LET key == getCacheKey(prompt, assetType)
        hit == key \in DOMAIN cache /\ ~Expired(cache[key])
        rest == Without({key})
    IN  /\ now + CacheDuration <= MaxClock
        /\ IF hit
             THEN /\ cres' = CacheResult("generate", key, {cache[key]})
                  /\ UNCHANGED <<cache, stored>>
             ELSE IF ok
               THEN /\ cache' = [k \in (DOMAIN rest) \cup {key} |->
                                    IF k = key THEN NewAsset(key) ELSE rest[k]]
                    /\ stored' = [stored EXCEPT ![key] = {NewAsset(key)}]
                    /\ cres' = CacheResult("generate", key, {NewAsset(key)})
               ELSE /\ cache' = rest
                    /\ cres' = CacheResult("generate", key, {})
                    /\ UNCHANGED stored
        /\ UNCHANGED <<now, image, eventImage>>
        /\ UNCHANGED <<limVars, cliVars, strVars, gameVars, parseVars, worldVars>>

\* ag.ListAssets(): the assets that have not expired; the expired ones are
\* deleted.
ListAssets ==
    LET gone == {k \in DOMAIN cache : Expired(cache[k])}
    IN  /\ cache' = Without(gone)
        /\ cres' = CacheResult("list", <<"", "">>, {cache[k] : k \in (DOMAIN cache) \ gone})
        /\ UNCHANGED <<stored, now, image, eventImage>>
        /\ UNCHANGED <<limVars, cliVars, strVars, gameVars, parseVars, worldVars>>

\* A ClearCache that leaves the assets in place.
ClearNothing ==
    /\ cres' = CacheResult("clear", <<"", "">>, {})
    /\ stored' = [k \in CacheKeys |-> {}]
    /\ UNCHANGED <<cache, now, image, eventImage>>
    /\ UNCHANGED <<limVars, cliVars, strVars, gameVars, parseVars, worldVars>>

\* ag.ClearCache(): ag.cache = make(map[string]*Asset)
ClearCache ==
    /\ cache' = <<>>
    /\ cres' = CacheResult("clear", <<"", "">>, {})
    /\ stored' = [k \in CacheKeys |-> {}]
    /\ UNCHANGED <<now, image, eventImage>>
    /\ UNCHANGED <<limVars, cliVars, strVars, gameVars, parseVars, worldVars>>

\* a tick of the clock passes
ClockTick ==
    /\ now < MaxClock
    /\ now' = now + 1
    /\ UNCHANGED <<cache, stored, cres, image, eventImage>>
    /\ UNCHANGED <<limVars, cliVars, strVars, gameVars, parseVars, worldVars>>

\* NewAssetGenerator: cache: make(map[string]*Asset); no image was asked for.
InitAssets ==
    /\ image = NoImage
    /\ eventImage = ""
    /\ cache = <<>>
    /\ stored = [k \in CacheKeys |-> {}]
    /\ now = 0
    /\ cres = NoCacheResult

(***************************************************************************)
(* Specifications                                                           *)
(***************************************************************************)

\* the game is not played under this specification: one environment for it is enough
InitLim ==
    /\ InitLimiter /\ InitClient /\ InitStream /\ InitGame /\ InitParse /\ InitAssets
    /\ geminiKey /\ OneTurnEnv

NextLim ==
    \/ \E t \in 1..MaxTickers : Refill(t)
    \/ AdvanceTime
    \/ \E rps \in 0..MaxRPS : SetRateLimit(rps)
    \/ reinitRateLimiter
    \/ \E w \in Workers : AcquireRead(w)
    \/ \E w \in Workers : AcquireRecv(w)

\* The limiter under every interleaving of acquire, ticks and SetRateLimit.
SpecLimiter == InitLim /\ [][NextLim]_vars

\* The same with the scheduling the runtime gives: time passes, every ticker
\* goroutine runs at its tick, a receive on a non-empty channel completes.
FairLimiter ==
    /\ SpecLimiter
    /\ WF_vars(AdvanceTime)
    /\ \A t \in 1..MaxTickers : WF_vars(Refill(t))
    /\ WF_vars(reinitRateLimiter)
    /\ \A w \in Workers : SF_vars(AcquireRecv(w))

\* the game is not played under this specification: one environment for it is enough
InitCalls ==
    /\ InitLimiter /\ InitClient /\ InitStream /\ InitGame /\ InitParse /\ InitAssets
    /\ geminiKey /\ OneTurnEnv

NextSend ==
    \/ \E a \in 0..MaxAttempts, b \in {0, TestBackoff} : SetRetry(a, b)
    \/ \E m \in Models : GenerateWithLLM(m)
    \/ AnalyzeVision
    \/ Cancel
    \/ sendAcquire
    \/ \E r \in Outcomes : sendResponse(r)
    \/ sendSleep
    \/ \E r \in Outcomes : directResponse(r)
    \/ \E r \in Outcomes : visionResponse(r)

\* One caller making blocking calls through a freshly constructed client,
\* within the second after construction: the calls draw on the DefaultRPS
\* permits the pool starts with.
SpecSend == InitCalls /\ [][NextSend]_vars

NextCalls ==
    \/ NextSend
    \/ \E t \in 1..MaxTickers : Refill(t)
    \/ AdvanceTime

\* The same caller over any length of time: the ticker goroutine runs beside
\* it.
SpecCalls == InitCalls /\ [][NextCalls]_vars

\* the game is not played under this specification: one environment for it is enough
InitStr ==
    /\ InitLimiter /\ InitClient /\ InitStream /\ InitGame /\ InitParse /\ InitAssets
    /\ geminiKey /\ OneTurnEnv

NextStr ==
    \/ \E m \in Models : GenerateWithLLMStream(m)
    \/ streamCancel
    \/ streamAcquire
    \/ \E r \in Outcomes : streamDo(r)
    \/ \E l \in Lines : streamRead(l)
    \/ streamSend
    \/ consumerRecv
    \/ consumerStop
    \/ \E t \in 1..MaxTickers : Refill(t)
    \/ AdvanceTime

\* One streaming call, its consumer and the ticker goroutine.
SpecStream == InitStr /\ [][NextStr]_vars

\* The same with the scheduling the runtime gives: the goroutine runs whenever
\* it is not blocked, time passes and the ticker goroutine runs at its tick.
\* Nothing makes the consumer receive.
FairStream ==
    /\ SpecStream
    /\ WF_vars(streamAcquire)
    /\ WF_vars(\E r \in Outcomes : streamDo(r))
    /\ WF_vars(\E l \in Lines : streamRead(l))
    /\ WF_vars(streamSend)
    /\ WF_vars(AdvanceTime)
    /\ \A t \in 1..MaxTickers : WF_vars(Refill(t))

InitGameSpec ==
    /\ InitLimiter /\ InitClient /\ InitStream /\ InitGame /\ InitParse /\ InitAssets
    /\ OneTurnEnv

NextGame ==
    \/ turnPc = "idle" /\ StartNewTurn
    \/ StartNewTurnOver
    \/ \E w \in AdvisorIds, a \in Answers(PrimaryOutcomes) : llamaReturns(w, a)
    \/ \E w \in AdvisorIds, a \in Answers(SecondaryOutcomes) : geminiReturns(w, a)
    \/ \E w \in AdvisorIds : writeStat(w)
    \/ turnBuilt
    \/ ProcessPlayerChoice(1)
    \/ \E d \in DirectorOutcomes : directorReturns(1, d)
    \/ \E g \in GeminiEvalOutcomes, c \in Categories : geminiEvalReturns(1, g, c)

\* One game played turn after turn: StartNewTurn with its concurrent workers,
\* then ProcessPlayerChoice, until the turn limit.
SpecGame == InitGameSpec /\ [][NextGame]_vars

NextServer ==
    \/ NextGame
    \/ handleStart

\* The same game behind the HTTP server, where POST /api/start may arrive at
\* any time.
SpecServer == InitGameSpec /\ [][NextServer]_vars

\* the decoder applied to every body of at most MaxBodyLines lines
NextDecode == \E b \in Bodies : Decode(b)

InitPure ==
    /\ InitLimiter /\ InitClient /\ InitStream /\ InitGame /\ InitParse /\ InitAssets
    /\ geminiKey /\ OneTurnEnv

SpecDecode == InitPure /\ [][NextDecode]_vars

\* the extractor applied to every text of at most MaxFragments fragments
NextExtract == \E t \in RawTexts : Extract(t)

SpecExtract == InitPure /\ [][NextExtract]_vars

\* sanitizeOpinion applied to every string of at most MaxDirtyLen atoms
NextSanitize == \E s \in DirtyTexts : Sanitize(s)

SpecSanitize == InitPure /\ [][NextSanitize]_vars

\* a provider that answers quickly with a usable opinion
QuickUsable == [o |-> "usable", lat |-> FastLatency]

InitRounds == InitLimiter /\ InitClient /\ InitStream /\ InitGame /\ InitParse /\ InitAssets

\* the workers before w have finished
InOrder(w) == \A v \in selected : v < w => wk[v].pc = "done"

\* What the requests of a client make the server do, request q running the
\* evaluations; the advisors are answered one after the other by the primary
\* provider, and the game is started anew only between two other requests.
Serving(q) ==
    \/ StartNewTurn
    \/ StartNewTurnOver
    \/ \E w \in AdvisorIds : InOrder(w) /\ llamaReturns(w, QuickUsable)
    \/ \E w \in AdvisorIds : InOrder(w) /\ writeStat(w)
    \/ turnBuilt
    \/ ProcessPlayerChoice(q)
    \/ \E d \in DirectorOutcomes : directorReturns(q, d)
    \/ \E g \in GeminiEvalOutcomes, c \in Categories : geminiEvalReturns(q, g, c)
    \/ \E h \in TurnHandlers : handleNoActiveTurn(h)
    \/ handleNewRound
    \/ (turnPc # "workers" /\ \A r \in Requests : rq[r].pc = "idle") /\ handleStart

NextRounds == Serving(1)

\* The HTTP server used by one client that waits for each response: starts,
\* new rounds and evaluations in any order, over at most MaxTurnsEnv turns.
SpecRounds == InitRounds /\ [][NextRounds]_vars

NextRace == \E q \in Requests : Serving(q)

InitRace == InitRounds /\ geminiKey /\ OneTurnEnv

\* The same server when evaluation requests overlap, in a game of one turn.
SpecRace == InitRace /\ [][NextRace]_vars

NextImage ==
    \/ Serving(1)
    \/ \E token \in BOOLEAN, flux \in FluxOutcomes, gem \in GeminiImageOutcomes :
          handleGenerateImage(token, flux, gem)

\* The server, in a game of one turn, with requests for the event's image.
SpecImage == InitRace /\ [][NextImage]_vars

NextAssets ==
    \/ \E p \in Prompts, ok \in BOOLEAN : GenerateAsset(p, "image", ok)
    \/ \E p \in Prompts, ok \in BOOLEAN : GenerateAsset(p, "texture", ok)
    \/ \E p \in Prompts, t \in AssetTypes : getCachedAsset(p, t)
    \/ ListAssets
    \/ ClearCache
    \/ ClockTick

\* An asset generator with its cache enabled, over MaxClock ticks.
SpecAssets == InitPure /\ [][NextAssets]_vars

(***************************************************************************)
(* Rate limiter: properties                                                 *)
(***************************************************************************)

\* C5: a caller blocked in acquire() eventually obtains a permit as long as
\* refill ticks keep occurring, also when SetRateLimit replaces the permit
\* pool while it waits.
C5_WaiterEventuallyAcquires ==
    \A w \in Workers : (acq[w].pc = "wait") ~> (acq[w].pc = "idle")

\* C6: permits are added at most once per one-second interval (two instants
\* at which a ticker adds permits are the same instant or a full second
\* apart), and between two such instants at most `capacity` acquire() calls
\* complete on the pool in use, also after SetRateLimit calls.
C6_RefillOncePerSecond ==
    /\ lastGap \in {0, TicksPerSecond}
    /\ winAcq <= chans[tokens].cap

ViaSendRequest ==
    call.op = "GenerateWithLLM" /\ call.model \notin {"deepseek_r1", "llama_3_1_70b"}

\* The call has returned.
Returned == sendPc = "idle" /\ result # "none"

\* A client error that is not retry-eligible: a 4xx other than 429.
ClientError(r) == r.kind = "http" /\ r.status >= 400 /\ r.status < 500 /\ r.status # 429

\* The first k attempts of the call all got a retry-eligible status.
AllRetryStatus(k) == \A j \in 1..k : RetryStatus(responses[j])

\* C1: in sendRequest a response with a non-retry-eligible client status (400,
\* 401, 403, 404) gets exactly one HTTP attempt: no attempt follows it and the
\* call returns an error at once, whatever retryAttempts is.
C1_ClientErrorIsTerminal ==
    ViaSendRequest =>
        \A i \in 1..Len(responses) :
            ClientError(responses[i]) =>
                /\ i = Len(responses)
                /\ Returned
                /\ result # "ok"

\* C2: in sendRequest, while the responses carry a retry-eligible status (429,
\* 500, 502, 503) the call goes on until retryAttempts attempts have failed and
\* then gives up: min(retryAttempts, N) failing attempts for N such responses;
\* at most one request is in flight; the sleep before attempt k+1 is k times
\* the base backoff, and the sleeps of a call strictly increase.
C2_RetrySchedule ==
    ViaSendRequest =>
        /\ inflight = (IF sendPc = "http" THEN 1 ELSE 0)
        /\ Len(responses) + inflight <= retryAttempts
        /\ \A k \in 1..Len(responses) :
              AllRetryStatus(k) =>
                  IF k < retryAttempts
                    THEN /\ ~(Returned /\ Len(responses) = k)
                         /\ (Len(responses) > k \/ sendPc \in {"acquire", "http"}) =>
                               /\ Len(sleeps) >= k
                               /\ sleeps[k] = [after |-> k, ms |-> k * retryBackoff]
                    ELSE /\ Len(responses) = retryAttempts
                         /\ Returned
                         /\ result = "exhausted retries"
        /\ \A j \in 1..Len(sleeps) : \A k \in 1..Len(sleeps) :
              j < k => sleeps[j].ms < sleeps[k].ms

\* C2 witness: with three attempts configured, three retry-eligible responses
\* in a row: the call slept one and then two base backoffs and gave up.
C2_Witness ==
    /\ ViaSendRequest
    /\ Returned
    /\ retryAttempts = 3
    /\ Len(responses) = 3
    /\ AllRetryStatus(3)
    /\ responses[1].status = 429
    /\ responses[3].status = 503
    /\ sleeps = <<[after |-> 1, ms |-> retryBackoff], [after |-> 2, ms |-> 2 * retryBackoff]>>
    /\ result = "exhausted retries"

\* C3: in sendRequest a response with status < 400 whose body fails to decode
\* ends the call: no further HTTP attempt is made and an error is returned.
C3_DecodeFailureIsTerminal ==
    ViaSendRequest =>
        \A i \in 1..Len(responses) :
            (responses[i].kind = "http" /\ responses[i].status < 400
                 /\ ~Decodes(responses[i])) =>
                /\ i = Len(responses)
                /\ Returned
                /\ result # "ok"

\* C4: every logical call (sendRequest, and GenerateWithLLM for every model)
\* changes the metrics by exactly one increment: llmRequests when it returns
\* nil, llmFailures when it returns an error, whatever the number of attempts
\* and the kind of failure.
C4_OneMetricPerCall ==
    sendPc = "idle" =>
        /\ llmRequests = okCalls
        /\ llmFailures = errCalls

\* C8: every completion call, for every model and for the vision call, first
\* acquires a rate-limit permit, then sends through the retrying transport,
\* then decodes the response, in that order.
C8_PermitTransportDecoder ==
    \A i \in 1..Len(stages) :
        /\ stages[i] \in {"http_plain", "http_retry"} =>
              /\ stages[i] = "http_retry"
              /\ i > 1
              /\ stages[i - 1] = "permit"
        /\ stages[i] = "decode" =>
              /\ i > 1
              /\ stages[i - 1] = "http_retry"

\* C9: once the caller's context is cancelled, sendRequest acquires no permit,
\* starts no attempt and begins no sleep: whatever it was suspended in ends,
\* and the call returns.
C9_CancelEndsTheCall ==
    [][(ViaSendRequest /\ cancelled /\ sendPc # "idle") => sendPc' \in {sendPc, "idle"}]_vars

(***************************************************************************)
(* Streaming call: properties                                               *)
(***************************************************************************)

\* C10: after the caller's context is cancelled the GenerateWithLLMStream
\* goroutine always terminates and closes out and errCh, whatever the consumer
\* does, also when it stops receiving while the 32-slot buffer is full.
C10_StreamCloses ==
    strCancelled ~> (strPc = "closed")

(***************************************************************************)
(* The game: properties                                                     *)
(***************************************************************************)

Resolved(w) == w \in selected /\ wk[w].pc = "done"

IsPrefix(p, t) == Len(p) <= Len(t) /\ \A i \in 1..Len(p) : p[i] = t[i]

\* C11: whatever the primary and the secondary provider give (error, timeout,
\* unusable text, usable text), getAdvisorAdviceStream returns a non-empty
\* advice and a nil error, and evaluateChoice a non-empty evaluation and a nil
\* error.
C11_CascadeAlwaysResolves ==
    /\ \A w \in AdvisorIds : Resolved(w) => wk[w].final # "" /\ ~wk[w].err
    /\ \A i \in 1..Len(advisorResponses) : advisorResponses[i].advice # ""
    /\ ev.tier # "none" => ev.evaluation # "" /\ ~ev.err

\* C11 witness: a turn in which the three tiers each resolved an advisor
\* request, and whose evaluation came from the random fallback after both the
\* Director and Gemini failed.
C11_Witness ==
    /\ turnPc = "idle"
    /\ ev.tier = "static"
    /\ geminiKey
    /\ \A t \in {"primary", "secondary", "static"} :
          \E w \in AdvisorIds : Resolved(w) /\ wk[w].tier = t

\* The stages an advisor request may go through, in order.
CascadePaths ==
    {<<"primary_call", "primary_ok", "resolved">>,
     <<"primary_call", "primary_failed", "secondary_call", "secondary_ok", "resolved">>,
     <<"primary_call", "primary_failed", "secondary_call", "secondary_failed", "resolved">>}

InTrace(w, stage) == \E i \in 1..Len(wk[w].trace) : wk[w].trace[i] = stage

\* C12: an advisor request goes from the primary call to its success or
\* failure, then at most once to the secondary call, then resolves; the
\* secondary is called only after the primary failed or gave an empty or
\* meta-looking value, and the static fallback is used only after the
\* secondary failed as well.
C12_CascadeOrder ==
    \A w \in selected :
        /\ \E t \in CascadePaths : IsPrefix(wk[w].trace, t)
        /\ wk[w].pc = "secondary" =>
              wk[w].primary \in {"error", "timeout", "empty", "meta"}
        /\ wk[w].tier = "static" => InTrace(w, "secondary_failed")
        /\ wk[w].tier = "secondary" => InTrace(w, "secondary_ok")
        /\ wk[w].tier = "primary" => ~InTrace(w, "secondary_call")

\* C12 witness: one request was resolved by the static fallback after its
\* primary and its secondary call failed, another by the secondary provider.
C12_Witness ==
    /\ \E w \in AdvisorIds :
          /\ Resolved(w)
          /\ wk[w].tier = "static"
          /\ wk[w].trace = <<"primary_call", "primary_failed", "secondary_call",
                             "secondary_failed", "resolved">>
    /\ \E w \in AdvisorIds : Resolved(w) /\ wk[w].tier = "secondary"

\* C13: a request resolved by the secondary provider has increased
\* AdvisorGemini and not AdvisorTheta, AdvisorTheta is increased only for a
\* request whose advice came from the primary response, and a request resolved
\* by the static fallback has increased neither.
C13_CounterNamesTheTier ==
    \A w \in AdvisorIds :
        Resolved(w) =>
            /\ wk[w].tier = "secondary" => wk[w].counted = "AdvisorGemini"
            /\ wk[w].counted = "AdvisorTheta" => wk[w].tier = "primary"
            /\ wk[w].tier = "static" => wk[w].counted = "none"

\* C14: when StartNewTurn has its result, AdvisorGemini has grown by exactly
\* the number of this turn's requests that the secondary provider resolved,
\* in every interleaving of the workers.
C14_NoLostUpdate ==
    turnPc = "built" =>
        stats.AdvisorGemini - statsAtStart.AdvisorGemini
            = Cardinality({w \in selected : wk[w].tier = "secondary"})

\* C15: when the primary call failed on its deadline, the context of the
\* secondary call is not expired when that call starts.
C15_SecondaryHasItsWindow ==
    \A w \in selected :
        (wk[w].pc = "secondary" /\ wk[w].primary = "timeout")
            => wk[w].secStart < wk[w].secDeadline

\* C16: the result of StartNewTurn holds exactly one response per selected
\* advisor (3 responses when there are at least 3 advisors), whatever the
\* interleaving and the tiers, and it is built only when every worker is done.
C16_OneResponsePerAdvisor ==
    turnPc \in {"built", "director", "gemini"} =>
        /\ \A w \in selected : wk[w].pc = "done"
        /\ Len(currentTurn) = Cardinality(selected)
        /\ {currentTurn[i].id : i \in 1..Len(currentTurn)} = selected
        /\ Cardinality(advisors) >= SelectCount => Len(currentTurn) = SelectCount

\* C16 witness: a result of 3 responses, the workers having finished in an
\* order other than the order of their ids and by different tiers.
C16_Witness ==
    /\ turnPc = "built"
    /\ Len(currentTurn) = SelectCount
    /\ \E i, j \in 1..Len(currentTurn) : i < j /\ currentTurn[i].id > currentTurn[j].id
    /\ \E v, w \in selected : wk[v].tier # wk[w].tier

\* C17: no metrics counter ever decreases, also across POST /api/start.
C17_CountersNeverDecrease ==
    [][/\ stats'.AdvisorTheta >= stats.AdvisorTheta
       /\ stats'.AdvisorGemini >= stats.AdvisorGemini
       /\ stats'.DirectorTheta >= stats.DirectorTheta
       /\ stats'.DirectorGemini >= stats.DirectorGemini
       /\ llmRequests' >= llmRequests
       /\ llmFailures' >= llmFailures
       /\ llmStreamReqs' >= llmStreamReqs
       /\ llmStreamTokens' >= llmStreamTokens]_vars

(***************************************************************************)
(* The decoder and the extractor: properties                                *)
(***************************************************************************)
\* a data: line that carries one text, in delta.content or in text
IsChunk(l) ==
    /\ l.data
    /\ l.pay.shape = "choices"
    /\ (l.pay.content = <<>>) # (l.pay.text = <<>>)

IsDone(l) == l.data /\ l.pay.shape = "done"

NonBlank(b) == SelectSeq(b, LAMBDA l : ~IsBlank(l))

\* a body made of one or more data: chunks, with or without a closing
\* data: [DONE] line, blank lines between them allowed
IsChunkStream(b) ==
    LET ls == NonBlank(b)
        n == IF ls # <<>> /\ IsDone(ls[Len(ls)]) THEN Len(ls) - 1 ELSE Len(ls)
    IN  n >= 1 /\ \A i \in 1..n : IsChunk(ls[i])

\* the texts of the chunks of a body, in the order of the lines
RECURSIVE ChunkTexts(_)
ChunkTexts(b) ==
    IF b = <<>> THEN <<>>
    ELSE (IF IsChunk(Head(b)) THEN Head(b).pay.content \o Head(b).pay.text ELSE <<>>)
             \o ChunkTexts(Tail(b))

\* C18: for every body made of one or more data: chunks, each carrying
\* delta.content or text, with or without a closing data: [DONE] line,
\* parseSSEorJSONCompletion returns the texts of the chunks concatenated in the
\* order received, and never the data: framing.
C18_ChunksConcatenated ==
    (completion.ret /\ IsChunkStream(body))
        => completion = Decoded(ChunkTexts(body), <<>>)

\* the JSON objects of a text that are well formed and hold a string under the
\* key advisor_opinion, nested braces followed to the brace that closes them:
\* the indexes of their opening braces
KeyedObjects(r) ==
    {i \in 1..Len(r) :
        /\ r[i] = "{"
        /\ ParseMembers(r, i + 1, [has |-> FALSE, val |-> <<>>]).ok
        /\ ParseMembers(r, i + 1, [has |-> FALSE, val |-> <<>>]).has}

LastKeyedValue(r) ==
    ParseMembers(r, SetMax(KeyedObjects(r)) + 1, [has |-> FALSE, val |-> <<>>]).val

\* C19: when the text holds JSON objects, extractAdvisorOpinion returns the
\* (sanitized) advisor_opinion value of the last object that is well formed
\* and has the key, whatever the objects before it are.
C19_LastCandidatePreferred ==
    (opinion.ret /\ KeyedObjects(raw) # {})
        => opinion.text = sanitizeOpinion(LastKeyedValue(raw))

\* what a strategy yields on a text: the sanitized value, empty when it misses
Yield(st) == IF st.hit THEN sanitizeOpinion(st.val) ELSE <<>>

\* C20: extractAdvisorOpinion returns the empty value only when every strategy
\* (JSON candidate, regex capture after the key, labeled line, first non-meta
\* paragraph) yields nothing on the text.
C20_EmptyOnlyWhenAllMiss ==
    (opinion.ret /\ opinion.text = <<>>)
        => LET r == TrimSpace(raw)
           IN  /\ Yield(JSONStrategy(r)) = <<>>
               /\ Yield(RegexStrategy(r)) = <<>>
               /\ Yield(LabelStrategy(r)) = <<>>
               /\ Yield(ParagraphStrategy(r)) = <<>>

\* the sentences of a text: its pieces up to and with each '.', '?' or '!', and
\* what is left after the last of them when that is more than white space
SentenceCount(s) ==
    LET ends == {i \in 1..Len(s) : s[i] \in Terminators}
        rest == IF ends = {} THEN s ELSE From(s, SetMax(ends) + 1)
    IN  Cardinality(ends) + (IF TrimSpace(rest) # <<>> THEN 1 ELSE 0)

\* C21: for every input, what sanitizeOpinion returns has no leading or
\* trailing quote or backtick, no run of two or more white space characters,
\* and at most 3 sentences as delimited by '.', '?' or '!'.
C21_SanitizedShape ==
    sanitized.ret =>
        LET t == sanitized.text
        IN  /\ t # <<>> => (t[1] \notin {"Q", "BT"} /\ t[Len(t)] \notin {"Q", "BT"})
            /\ \A i \in 1..(Len(t) - 1) : ~(t[i] \in Space /\ t[i + 1] \in Space)
            /\ SentenceCount(t) <= MaxSentences

(***************************************************************************)
(* The world metrics, the turn limit and the handlers: properties           *)
(***************************************************************************)

\* the positions in a text where a decision "m":{"level":l,"direction":d}
\* for a metric starts
DecisionsIn(text) ==
    {i \in 1..(Len(text) - 4) :
        /\ text[i].a = "key" /\ text[i].k \in MetricNames
        /\ text[i + 1].a = "{"
        /\ text[i + 2].a = "str" /\ text[i + 2].k = "level"
        /\ text[i + 3].a = "str" /\ text[i + 3].k = "direction"
        /\ text[i + 4].a = "}"}

\* C22: an impact decision {level, direction} for a metric is converted so
\* that direction "0" gives the delta 0 for every level, and level "extreme"
\* with direction "-" gives the delta that takes the metric to its lower
\* boundary: -140 on a metric at 40.
C22_ExtremeSaturates ==
    ev.tier \in {"primary", "secondary"} =>
        \A i \in DecisionsIn(ev.text) :
            LET m == ev.text[i].k
                level == ev.text[i + 2].s
                direction == ev.text[i + 3].s
            IN  /\ direction = "0" => ev.impact[m] = 0
                /\ (level = "extreme" /\ direction = "-")
                      => ev.impact[m] = MetricFloor - ev.before[m]

\* the position of the "metrics" key when the text ends with the object
\* {"metrics":{...}} holding integer members only and at least one, 0 otherwise
FinalMetricsAt(text) ==
    LET n == Len(text)
        at == {i \in 2..(n - 4) :
                 /\ text[i] = Key("metrics")
                 /\ text[i - 1] = Open /\ text[i + 1] = Open
                 /\ text[n] = Close /\ text[n - 1] = Close
                 /\ \A j \in (i + 2)..(n - 2) : text[j].a = "int"}
    IN  IF at = {} THEN 0 ELSE SetMax(at)

\* the deltas of that object
FinalDeltas(text) ==
    LET i == FinalMetricsAt(text)
    IN  [m \in MetricNames |->
           LET js == {j \in (i + 2)..(Len(text) - 2) : text[j].k = m}
           IN  IF js = {} THEN 0 ELSE text[SetMax(js)].v]

\* C28: a Director reasoning that ends with the final object
\* {"metrics":{...}} with at least one integer entry is parsed, so that
\* evaluateChoice does not turn to Gemini with it but uses its deltas as the
\* impact and counts Stats.DirectorTheta; and mapDirectorDecisionToMetrics
\* returns the deltas of such a text rather than the category heuristic.
C28_FinalMetricsUsed ==
    /\ \A r \in Requests :
          rq[r].pc = "gemini" => FinalMetricsAt(rq[r].director.text) = 0
    /\ (ev.tier \in {"primary", "secondary"} /\ FinalMetricsAt(ev.text) # 0)
          => ev.impact = FinalDeltas(ev.text)

\* C23: after every completed ProcessPlayerChoice each of the six metrics
\* lies in [-100, 100], whatever the impacts and the number of turns.
C23_MetricsInRange ==
    history # <<>> =>
        \A m \in MetricNames : metrics[m] >= MetricFloor /\ metrics[m] <= MetricCeil

\* C23 witness: an evaluation whose impact would have taken a metric past
\* 100, and the metric at 100.
C23_Witness ==
    /\ history # <<>>
    /\ ev.tier # "none"
    /\ \E m \in MetricNames :
          ev.before[m] + ev.impact[m] > MetricCeil /\ metrics[m] = MetricCeil

\* C24: POST /api/new-round on a game that has ended answers gameOver=true
\* with the newspaper and the metrics and without a turnResult, and leaves
\* Turn, History, Metrics, CurrentTurn and Stats as they were; on a game that
\* has not ended it answers gameOver=false with a turnResult.
C24_NewRoundAfterEnd ==
    [][(resp' # resp /\ resp'.handler = "new-round") =>
         IF turn > maxTurns
           THEN /\ resp'.gameOver /\ resp'.newspaper /\ resp'.metrics
                /\ ~resp'.turnResult
                /\ UNCHANGED <<turn, history, metrics, currentTurn, stats>>
           ELSE ~resp'.gameOver /\ resp'.turnResult]_vars

\* C24 witness: the game-over answer, given after the last turn was played.
C24_Witness ==
    /\ resp.handler = "new-round" /\ resp.gameOver
    /\ Len(history) = maxTurns
    /\ turn = maxTurns + 1

\* C25: /api/evaluate-choice and /api/generate-image called when there is no
\* active turn answer with status 400 and change nothing of the game.
C25_NoActiveTurnRejected ==
    [][(resp' # resp /\ resp'.handler \in TurnHandlers /\ currentTurn = <<>>) =>
         /\ resp'.status = StatusBadRequest
         /\ UNCHANGED <<turn, history, metrics, currentTurn, stats, rq>>]_vars

\* C25 witness: /api/generate-image refused after a turn was evaluated.
C25_Witness ==
    /\ resp.handler = "generate-image"
    /\ resp.status = StatusBadRequest
    /\ history # <<>>
    /\ currentTurn = <<>>

\* C29: each started turn is evaluated at most once, also when
\* /api/evaluate-choice and /api/choice requests overlap: History holds no
\* turn twice and Turn = len(History) + 1.
C29_EvaluatedOnce ==
    /\ turn = Len(history) + 1
    /\ \A i, j \in 1..Len(history) : i # j => history[i] # history[j]

\* C30: the game lasts exactly MaxTurns turns under any sequence of start,
\* new-round and evaluate-choice requests: no turn is being started or is
\* active once Turn > MaxTurns, StartNewTurn then returns an error and
\* changes nothing, IsGameComplete holds exactly when MaxTurns choices were
\* processed, and History never holds more than MaxTurns entries.
C30_ExactlyMaxTurns ==
    /\ [](/\ Len(history) <= maxTurns
          /\ (turn > maxTurns) = (Len(history) = maxTurns)
          /\ turn > maxTurns => (turnPc = "idle" /\ currentTurn = <<>>))
    /\ [][(resp' # resp /\ resp'.handler = "StartNewTurn") =>
            /\ turn > maxTurns
            /\ resp'.err
            /\ UNCHANGED <<gameVars, metrics, history, rq>>]_vars

\* C30 witness: a game of MaxTurnsEnv turns played to its end, after which
\* StartNewTurn returned its error.
C30_Witness ==
    /\ maxTurns = MaxTurnsEnv
    /\ Len(history) = maxTurns
    /\ turn > maxTurns
    /\ resp.handler = "StartNewTurn" /\ resp.err

(***************************************************************************)
(* The image client and the asset cache: properties                         *)
(***************************************************************************)

\* C26: Generate turns to the Gemini generator whenever Flux fails (transport
\* error, status outside 2xx, 2xx body without an image URL) or no Theta
\* token is set, and returns an error only if Gemini failed as well.
C26_FallsBackToGemini ==
    image.called =>
        /\ (~image.token \/ image.flux # "url") => image.gemini # "none"
        /\ image.err => image.gemini = "error"

\* the asset stored under key k since the last ClearCache, if it has not
\* expired
Live(k) == {a \in stored[k] : now <= a.expiresAt}

====
